---- MODULE Spec2Model ----
(***************************************************************************)
(* A model of the forensic report generator: the LangGraph workflow        *)
(* (recursive artifact filtering, extraction, vector-store save,           *)
(* requirements analysis, agent reasoning loop, scenario synthesis,        *)
(* classification), the report orchestrator Generator.generate_report on   *)
(* top of it, and the pure helpers of workflow/classes.py and              *)
(* workflow/filter_node.py.                                                *)
(*                                                                         *)
(* Artifacts are natural numbers (their identity is all the code moves     *)
(* around).  The message history is kept as the per-kind message counts    *)
(* and the kind of the latest message, which is everything agent_reasoner, *)
(* router and scenario_generator read from it.                             *)
(***************************************************************************)
EXTENDS Integers, Sequences, FiniteSets, TLC

(***************************************************************************)
(* Bounds of the model.                                                    *)
(***************************************************************************)
\* largest artifact pool handed to the Part 1 graph
MaxArtifacts == 7
\* largest artifact pool handed to the full graph
MaxRunArtifacts == 2
\* chunk_size (filter_node.py:74 sets 300), scaled down
chunk_size == 2
\* batch_size (filter_node.py:82 sets 20), scaled down
batch_size == 3
\* max_workers_per_batch (filter_node.py:83 sets 5), scaled down
max_workers_per_batch == 2
\* most tool calls the model puts on one assistant message
MaxToolCalls == 1
\* most steps of a scenario the model writes
MaxScenarioSteps == 1
\* largest artifact pool handed to generate_report
MaxGenArtifacts == 1

(***************************************************************************)
(* Program constants.                                                      *)
(***************************************************************************)
max_iterations == 3
max_retries == 1
router_max_iterations == 20
recursion_limit == 80
part1_target_count == 100000

None == "None"

VARIABLES
    graph,          \* which compiled graph runs: "none", "full", "part1"
    node,           \* the node the graph runs next, or "END", "RAISED", "idle"
    state,          \* the AgentState of the run
    runs,           \* how many times each node has executed in the run
    error,          \* the exception that ended the run, "" if none
    f_pc,           \* recursive_filter_node: "idle" or "collect" (inside as_completed)
    f_chunks,       \* recursive_filter_node: artifact_chunks of this iteration
    f_batch,        \* recursive_filter_node: batch_num
    f_pending,      \* recursive_filter_node: chunk indices whose future has not completed
    batch_results,  \* recursive_filter_node: (chunk_idx, result) pairs in completion order
    completed,      \* history: the chunk indices of the latest batch as as_completed
                    \* yielded them
    slow,           \* history: the chunk indices of the batch in progress whose
                    \* analysis ran for longer than future_timeout seconds
    all_results,    \* recursive_filter_node: results of the finished batches
    collection,     \* documents held by the vector store collection "artifacts_collection"
    gen_pc,         \* Generator.generate_report: the step it is at
    frame,          \* Generator.generate_report: its arguments and local variables
    self,           \* the Generator object: scenario, context, report
    backend,        \* what the persistence backend has accepted
    calls,          \* how often generate_report has called each collaborator
    call,           \* the latest call of a pure function: its arguments and result
    global_chroma_client,   \* database.py: _global_chroma_client, 0 for None
    global_client_path,     \* database.py: _global_client_path
    client_lock,            \* database.py: _client_lock: the thread holding it, 0 if free
    threads,                \* the threads calling get_chroma_client: position, argument,
                            \* what was read on the fast path, result
    constructed,            \* history: the clients PersistentClient has built, with
                            \* the directory of each
    ToolContext,            \* tools.py: the class attributes collection_name, db_config
    workflow_runs           \* the workflow runs of the process: where each is in its
                            \* reasoning loop, the values of its state, and history of
                            \* what it set and what its tool calls read

graphVars == <<graph, node, state, runs, error>>
filterVars == <<f_pc, f_chunks, f_batch, f_pending, batch_results, completed, slow,
               all_results>>
genVars == <<gen_pc, frame, self, backend, calls>>
chromaVars == <<global_chroma_client, global_client_path, client_lock, threads,
                constructed>>
toolVars == <<ToolContext, workflow_runs>>
vars == <<graph, node, state, runs, error, f_pc, f_chunks, f_batch, f_pending,
          batch_results, completed, slow, all_results, collection, gen_pc, frame, self, backend,
          calls, call, global_chroma_client, global_client_path, client_lock, threads,
          constructed, ToolContext, workflow_runs>>

(***************************************************************************)
(* Helpers over sequences.                                                 *)
(***************************************************************************)
Min(a, b) == IF a <= b THEN a ELSE b

\* s[lo:hi] of Python (0-based, hi exclusive, clipped to the length)
Slice(s, lo, hi) == [k \in 1..(Min(hi, Len(s)) - lo) |-> s[lo + k]]

\* the concatenation of a sequence of sequences (repeated list.extend)
RECURSIVE Flatten(_)
Flatten(ss) == IF ss = <<>> THEN <<>> ELSE Head(ss) \o Flatten(Tail(ss))

\* the sum of the lengths of a sequence of sequences
RECURSIVE SumLen(_)
SumLen(ss) == IF ss = <<>> THEN 0 ELSE Len(Head(ss)) + SumLen(Tail(ss))

\* the pairs of batch_results sorted by chunk index (list.sort(key=lambda x: x[0]));
\* the keys of one batch are distinct
RECURSIVE SortByIdx(_)
SortByIdx(pairs) ==
    IF pairs = <<>> THEN <<>>
    ELSE LET m == CHOOSE i \in 1..Len(pairs) :
                     \A j \in 1..Len(pairs) : pairs[i][1] <= pairs[j][1]
             rest == [k \in 1..(Len(pairs) - 1) |->
                         IF k < m THEN pairs[k] ELSE pairs[k + 1]]
         IN  <<pairs[m]>> \o SortByIdx(rest)

(***************************************************************************)
(* common/utils.py                                                         *)
(***************************************************************************)
\* [artifacts[i:i+chunk_size] for i in range(0, len(artifacts), chunk_size)]
chunk_artifacts(artifacts, size) ==
    [c \in 1..((Len(artifacts) + size - 1) \div size) |->
        Slice(artifacts, (c - 1) * size, c * size)]

(***************************************************************************)
(* workflow/filter_node.py: analyze_chunk_simple                           *)
(***************************************************************************)
\* what the filter model can answer for one chunk: an exception, an absent or
\* malformed response, or a FilterResult carrying a list of indices
IndexChoices == {<<>>, <<0>>, <<1>>, <<1, 0>>, <<0, 0>>, <<-1>>, <<chunk_size>>}

FilterReplies ==
    {[kind |-> "raise", important_indices |-> <<>>],
     [kind |-> "none", important_indices |-> <<>>]}
    \cup {[kind |-> "ok", important_indices |-> s] : s \in IndexChoices}

\* [chunk[idx] for idx in important_indices if 0 <= idx < len(chunk)]
RECURSIVE SelectByIndex(_, _)
SelectByIndex(chunk, idxs) ==
    IF idxs = <<>> THEN <<>>
    ELSE IF 0 <= Head(idxs) /\ Head(idxs) < Len(chunk)
         THEN <<chunk[Head(idxs) + 1]>> \o SelectByIndex(chunk, Tail(idxs))
         ELSE SelectByIndex(chunk, Tail(idxs))

\* chunk_idx and target_ratio are history fields: the index of the chunk the
\* result was computed for and the ratio (in thousandths) it was filtered at,
\* 0 in a result the caller supplied (analyze_chunk_simple receives both; it
\* prints the first and hands the second to the filter model)
ChunkAnalysisResult(chunk_idx, target_ratio, arts, summary) ==
    [chunk_idx |-> chunk_idx, target_ratio |-> target_ratio,
     important_artifacts |-> arts, chunk_summary |-> summary]

\* a loop that allows one attempt more
RetryAllowedOnceMore(attempt) == attempt <= max_retries

\* if attempt < max_retries: sleep one second and go round again
RetryAllowed(attempt) == attempt < max_retries

\* how often filter_chain.invoke is called in the retry loop
RECURSIVE InvokeCount(_, _)
InvokeCount(replies, attempt) ==
    IF replies[attempt + 1].kind = "ok" THEN attempt + 1
    ELSE IF RetryAllowed(attempt) THEN InvokeCount(replies, attempt + 1)
    ELSE attempt + 1

\* the retry loop: replies[attempt + 1] is the model's answer to that attempt
RECURSIVE AnalyzeAttempt(_, _, _, _, _)
AnalyzeAttempt(chunk, chunk_idx, target_ratio, replies, attempt) ==
    LET reply == replies[attempt + 1] IN
    IF reply.kind = "ok"
    THEN LET important == SelectByIndex(chunk, reply.important_indices) IN
         ChunkAnalysisResult(chunk_idx, target_ratio, important,
                             IF important = <<>> THEN "irrelevant" ELSE "llm")
    ELSE IF RetryAllowed(attempt)
         THEN AnalyzeAttempt(chunk, chunk_idx, target_ratio, replies, attempt + 1)
         ELSE ChunkAnalysisResult(chunk_idx, target_ratio, <<>>,
                                  IF reply.kind = "none" THEN "failed" ELSE "error")

analyze_chunk_simple(chunk, chunk_idx, target_ratio, replies) ==
    AnalyzeAttempt(chunk, chunk_idx, target_ratio, replies, 0)

ReplySeqs == [1..(max_retries + 1) -> FilterReplies]

(***************************************************************************)
(* workflow/filter_node.py: should_continue_filtering                      *)
(***************************************************************************)
TotalFiltered(results) == SumLen([i \in 1..Len(results) |-> results[i].important_artifacts])

\* a should_continue_filtering that goes on when the target is met exactly
should_continue_filtering_strict(target_count, filter_iteration, total_filtered) ==
    IF total_filtered < target_count THEN "synthesize"
    ELSE IF filter_iteration >= max_iterations THEN "synthesize"
    ELSE "continue"

\* lines 188-201, over the three values read from the state
should_continue_filtering_of(target_count, filter_iteration, total_filtered) ==
    IF total_filtered <= target_count THEN "synthesize"
    ELSE IF filter_iteration >= max_iterations THEN "synthesize"
    ELSE "continue"

should_continue_filtering(s) ==
    should_continue_filtering_of(s.target_artifact_count, s.filter_iteration,
                                 TotalFiltered(s.intermediate_results))

(***************************************************************************)
(* The graph: bookkeeping of one superstep.                                *)
(***************************************************************************)
Nodes == {"filter_artifacts", "extract_results", "save_data", "analyze_requirements",
          "agent_reasoner", "execute_tools", "generate_scenario", "classify_results"}

Steps == runs["filter_artifacts"] + runs["extract_results"] + runs["save_data"]
         + runs["analyze_requirements"] + runs["agent_reasoner"]
         + runs["execute_tools"] + runs["generate_scenario"] + runs["classify_results"]

Ran(n) == runs' = [runs EXCEPT ![n] = @ + 1]

NoMessages == [ai |-> 0, tool |-> 0, other |-> 0, last |-> "none"]

NoReport == [present |-> FALSE, name |-> "", job_id |-> "", task_id |-> "",
             report_detail_id |-> None, steps |-> 0]

\* the state create_initial_state is given by the callers of the graphs
InitialState(job_id, task_id, artifacts, target) ==
    [job_id |-> job_id, task_id |-> task_id,
     artifact_chunks |-> <<artifacts>>,
     intermediate_results |-> <<>>, filter_iteration |-> 0,
     target_artifact_count |-> target, current_strictness |-> "very_strict",
     filtered_artifacts |-> <<>>, data_save_status |-> None,
     collection_name |-> None, db_config |-> None,
     messages |-> NoMessages, tool_calls |-> 0, analysis_failed |-> FALSE,
     final_report |-> NoReport, context |-> None]

(***************************************************************************)
(* workflow/filter_node.py: recursive_filter_node                          *)
(***************************************************************************)
\* ratios in thousandths: 0.015, 0.025, 0.06
strictness_levels ==
    <<[name |-> "very_strict", ratio |-> 15],
      [name |-> "strict", ratio |-> 25],
      [name |-> "moderate", ratio |-> 60]>>

\* a recursive_filter_node that reads the level after the current one
target_ratio_next_level(filter_iteration) ==
    strictness_levels[Min(filter_iteration + 2, Len(strictness_levels))].ratio

\* line 42: strictness, target_ratio = strictness_levels[filter_iteration];
\* the node keeps it for the whole iteration and passes it to every analysis
target_ratio_of(filter_iteration) ==
    strictness_levels[filter_iteration + 1].ratio

\* the chunk indices of batch batch_num: range(start_idx, end_idx)
BatchIndices(batch_num, total_chunks) ==
    (batch_num * batch_size) .. (Min(batch_num * batch_size + batch_size, total_chunks) - 1)

\* the futures a pool of max_workers_per_batch threads has started: a submitted
\* chunk runs once fewer than max_workers_per_batch earlier ones are unfinished
Started(pending) ==
    {i \in pending : Cardinality({j \in pending : j < i}) < max_workers_per_batch}

\* a recursive_filter_node that extends all_results in completion order
ExtendUnsorted(results, pairs) ==
    results \o [k \in 1..Len(pairs) |-> pairs[k][2]]

\* lines 135-136: batch_results.sort(); all_results.extend(r for _, r in batch_results)
ExtendSorted(results, pairs) ==
    LET sorted == SortByIdx(pairs)
    IN  results \o [k \in 1..Len(sorted) |-> sorted[k][2]]

\* the edge after filter_artifacts
FilterEdge(s) ==
    IF should_continue_filtering(s) = "continue" THEN "filter_artifacts"
    ELSE "extract_results"

\* lines 144-164 and the conditional edge: the progress print divides by
\* target_count, then the node returns its update
FilterFinish(results) ==
    IF state.target_artifact_count = 0
    THEN /\ node' = "RAISED"
         /\ error' = "ZeroDivisionError"
         /\ UNCHANGED <<state, runs>>
    ELSE LET next_iteration == state.filter_iteration + 1
             next_strictness_idx == Min(next_iteration, Len(strictness_levels) - 1)
             new == [state EXCEPT
                        !.intermediate_results = results,
                        !.filter_iteration = next_iteration,
                        !.current_strictness = strictness_levels[next_strictness_idx + 1].name]
         IN  /\ state' = new
             /\ node' = FilterEdge(new)
             /\ Ran("filter_artifacts")
             /\ UNCHANGED error

\* the input pool of an iteration (lines 46-57)
FilterPool(s) ==
    IF s.filter_iteration = 0 THEN Flatten(s.artifact_chunks)
    ELSE Flatten([i \in 1..Len(s.intermediate_results) |->
                     s.intermediate_results[i].important_artifacts])

\* lines 12-115: the node starts; with nothing to filter it finishes at once,
\* otherwise it submits the first batch to the thread pool
FilterEnter ==
    /\ node = "filter_artifacts"
    /\ f_pc = "idle"
    /\ UNCHANGED <<graph, collection, genVars, call, chromaVars, toolVars>>
    /\ IF state.filter_iteration >= max_iterations
       THEN /\ node' = FilterEdge(state)
            /\ Ran("filter_artifacts")
            /\ UNCHANGED <<state, error, filterVars>>
       ELSE LET chunks == chunk_artifacts(FilterPool(state), chunk_size)
            IN  IF Len(chunks) = 0
                THEN /\ FilterFinish(<<>>)
                     /\ f_chunks' = <<>>
                     /\ UNCHANGED <<f_pc, f_batch, f_pending, batch_results, completed,
                                    slow, all_results>>
                ELSE /\ f_pc' = "collect"
                     /\ f_chunks' = chunks
                     /\ f_batch' = 0
                     /\ f_pending' = BatchIndices(0, Len(chunks))
                     /\ batch_results' = <<>>
                     /\ completed' = <<>>
                     /\ slow' = {}
                     /\ all_results' = <<>>
                     /\ UNCHANGED <<node, state, runs, error>>

\* line 120: the seconds future.result waits for the value
future_timeout == 120

\* how long an analysis runs before its future is finished: a second, or
\* longer than future_timeout
AnalysisSeconds == {1, future_timeout + 1}

\* lines 119-127: future.result(timeout=120) gives the value of a finished
\* future at once, and raises TimeoutError, which is recorded, for a future
\* still running after the timeout. as_completed (line 117) yields a future
\* only when it has finished
future_result(finished, value, chunk_idx, target_ratio) ==
    IF finished THEN value
    ELSE ChunkAnalysisResult(chunk_idx, target_ratio, <<>>, "timeout")

\* lines 117-142: as_completed yields the future of chunk i, whose analysis got
\* `replies` from the filter model; the last future of a batch ends the batch
\* (sort, extend), and the last batch ends the node
CollectChunk ==
    /\ node = "filter_artifacts"
    /\ f_pc = "collect"
    /\ UNCHANGED <<graph, collection, f_chunks, genVars, call, chromaVars, toolVars>>
    /\ \E i \in Started(f_pending), replies \in ReplySeqs, seconds \in AnalysisSeconds :
        LET target_ratio == target_ratio_of(state.filter_iteration)
            chunk_result ==
                future_result(TRUE,
                              analyze_chunk_simple(f_chunks[i + 1], i, target_ratio, replies),
                              i, target_ratio)
            collected == Append(batch_results, <<i, chunk_result>>)
            num_batches == (Len(f_chunks) + batch_size - 1) \div batch_size
        IN  IF f_pending # {i}
            THEN /\ f_pending' = f_pending \ {i}
                 /\ batch_results' = collected
                 /\ completed' = Append(completed, i)
                 /\ slow' = IF seconds > future_timeout THEN slow \cup {i} ELSE slow
                 /\ UNCHANGED <<node, state, runs, error, f_pc, f_batch, all_results>>
            ELSE IF f_batch < num_batches - 1
            THEN /\ all_results' = ExtendSorted(all_results, collected)
                 /\ f_batch' = f_batch + 1
                 /\ f_pending' = BatchIndices(f_batch + 1, Len(f_chunks))
                 /\ batch_results' = <<>>
                 /\ completed' = <<>>
                 /\ slow' = {}
                 /\ UNCHANGED <<node, state, runs, error, f_pc>>
            ELSE /\ FilterFinish(ExtendSorted(all_results, collected))
                 /\ f_pc' = "idle"
                 /\ f_batch' = 0
                 /\ f_pending' = {}
                 /\ batch_results' = <<>>
                 /\ completed' = Append(completed, i)
                 /\ slow' = {}
                 /\ all_results' = <<>>

(***************************************************************************)
(* workflow/rag_agent_workflow.py: extract_filtered_artifacts              *)
(***************************************************************************)
ExtractResults ==
    /\ node = "extract_results"
    /\ state' = [state EXCEPT
                    !.filtered_artifacts =
                        Flatten([i \in 1..Len(state.intermediate_results) |->
                                    state.intermediate_results[i].important_artifacts]),
                    !.artifact_chunks = <<>>,
                    !.intermediate_results = <<>>]
    /\ node' = "save_data"
    /\ Ran("extract_results")
    /\ UNCHANGED <<graph, error, filterVars, collection, genVars, call, chromaVars, toolVars>>

(***************************************************************************)
(* workflow/database.py: save_to_chroma, save_data_node                    *)
(***************************************************************************)
\* the dictionary save_to_chroma returns; `stored` tells whether embedding and
\* storing the documents went through
save_to_chroma(artifacts, stored) ==
    IF artifacts = <<>>
    THEN [data_save_status |-> "success", collection_name |-> None, db_config |-> None]
    ELSE IF stored
    THEN [data_save_status |-> "success", collection_name |-> "artifacts_collection",
          db_config |-> "chroma"]
    ELSE [data_save_status |-> "failure", collection_name |-> None, db_config |-> None]

\* status if status else "failure"
check_save_status(s) ==
    IF s.data_save_status = None \/ s.data_save_status = "" THEN "failure"
    ELSE s.data_save_status

\* a graph whose edge after save_data ignores the save status
SaveEdgeUnconditional(g, s) ==
    IF g = "part1" THEN "END" ELSE "analyze_requirements"

\* the edge after save_data: the full graph branches on check_save_status, the
\* Part 1 graph goes to END
SaveEdge(g, s) ==
    IF g = "part1" THEN "END"
    ELSE IF check_save_status(s) = "success" THEN "analyze_requirements"
    ELSE "END"

\* a key the result does not carry leaves the state's value as it is
Merged(old, new) == IF new = None THEN old ELSE new

SaveData ==
    /\ node = "save_data"
    /\ \E deleted \in BOOLEAN, stored \in BOOLEAN :
        LET emptied == IF deleted THEN <<>> ELSE collection
            result == save_to_chroma(state.filtered_artifacts, stored)
            new == [state EXCEPT
                       !.data_save_status = result.data_save_status,
                       !.collection_name = Merged(@, result.collection_name),
                       !.db_config = Merged(@, result.db_config)]
        IN  /\ collection' = IF state.filtered_artifacts # <<>> /\ stored
                             THEN emptied \o state.filtered_artifacts
                             ELSE emptied
            /\ state' = new
            /\ node' = SaveEdge(graph, new)
    /\ Ran("save_data")
    /\ UNCHANGED <<graph, error, filterVars, genVars, call, chromaVars, toolVars>>

(***************************************************************************)
(* workflow/requirements_node.py: analyze_requirements_node                *)
(***************************************************************************)
\* the model's brief, or the raw requirement text when the call fails: either
\* way only analyzed_user_requirements is set, which no later branch reads
AnalyzeRequirements ==
    /\ node = "analyze_requirements"
    /\ node' = "agent_reasoner"
    /\ Ran("analyze_requirements")
    /\ UNCHANGED <<graph, state, error, filterVars, collection, genVars, call, chromaVars, toolVars>>

(***************************************************************************)
(* workflow/rag_agent_workflow.py: router, check_is_done                   *)
(***************************************************************************)
\* str(result).strip().lower() over the strings the judgment model answers with
StripLower(str) ==
    CASE str = " True " -> "true"
      [] str = "YES" -> "yes"
      [] str = "False" -> "false"
      [] OTHER -> str

\* the answers of the completion judgment: a bool, a dict (with the bool values
\* it holds, in order), anything else (its str())
JudgeResults ==
    {[type |-> "bool", bool |-> b, bools |-> <<>>, str |-> ""] : b \in BOOLEAN}
    \cup {[type |-> "dict", bool |-> FALSE, bools |-> bs, str |-> "{...}"] :
             bs \in {<<>>, <<TRUE>>, <<FALSE>>, <<FALSE, TRUE>>}}
    \cup {[type |-> "other", bool |-> FALSE, bools |-> <<>>, str |-> t] :
             t \in {" True ", "YES", "1", "False", "done"}}

check_is_done(result) ==
    IF result.type = "bool" THEN result.bool
    ELSE IF result.type = "dict" /\ result.bools # <<>> THEN result.bools[1]
    ELSE StripLower(result.str) \in {"true", "yes", "1"}

\* what structured_llm.invoke does: it answers, or it raises
JudgeReplies ==
    JudgeResults \cup {[type |-> "raise", bool |-> FALSE, bools |-> <<>>, str |-> ""]}

\* a router that looks at the pending tool calls before the loop breaker
router_tools_first(s, judge) ==
    LET messages == s.messages IN
    IF messages.ai + messages.tool + messages.other = 0 THEN "continue"
    ELSE IF s.analysis_failed THEN "generate_scenario"
    ELSE IF messages.last = "ai_tools" THEN "tools"
    ELSE IF messages.ai >= router_max_iterations THEN "generate_scenario"
    ELSE IF messages.last = "ai_empty" THEN "continue"
    ELSE IF judge.type = "raise" THEN "raise"
    ELSE IF check_is_done(judge) THEN "generate_scenario"
    ELSE "continue"

\* router: "tools", "generate_scenario", "continue", or "raise" when the call
\* of the judgment model raises, which router does not catch
router(s, judge) ==
    LET messages == s.messages IN
    IF messages.ai + messages.tool + messages.other = 0 THEN "continue"
    ELSE IF s.analysis_failed THEN "generate_scenario"
    ELSE IF messages.ai >= router_max_iterations THEN "generate_scenario"
    ELSE IF messages.last = "ai_tools" THEN "tools"
    ELSE IF messages.last = "ai_empty" THEN "continue"
    ELSE IF judge.type = "raise" THEN "raise"
    ELSE IF check_is_done(judge) THEN "generate_scenario"
    ELSE "continue"

\* the edge after agent_reasoner
ReasonerEdge(route) ==
    CASE route = "tools" -> "execute_tools"
      [] route = "generate_scenario" -> "generate_scenario"
      [] route = "continue" -> "agent_reasoner"
      [] route = "raise" -> "RAISED"

(***************************************************************************)
(* workflow/rag_agent_workflow.py: agent_reasoner                          *)
(***************************************************************************)
\* what the tool-bound model does: raises, or answers with tool calls, with
\* text, or with an empty message
ReasonerReplies ==
    {[kind |-> k, tool_calls |-> 0] : k \in {"raise", "ai_text", "ai_empty"}}
    \cup {[kind |-> "ai_tools", tool_calls |-> n] : n \in 1..MaxToolCalls}

\* the messages channel after agent_reasoner returned (the channel adds what
\* the node returns to what it holds)
ReasonerMessages(messages, reply) ==
    LET total == messages.ai + messages.tool + messages.other
        nudged == total > 0 /\ messages.last \in {"ai_text", "ai_empty"}
        to_invoke == IF total = 0 THEN 2 ELSE total + (IF nudged THEN 1 ELSE 0)
    IN  IF reply.kind = "raise"
        THEN [messages EXCEPT !.ai = @ + 1, !.last = "ai_text"]
        ELSE IF to_invoke = 2
        THEN [ai |-> messages.ai + (IF total = 0 THEN 0 ELSE messages.ai) + 1,
              tool |-> messages.tool + (IF total = 0 THEN 0 ELSE messages.tool),
              other |-> messages.other
                        + (IF total = 0 THEN 2
                           ELSE messages.other + (IF nudged THEN 1 ELSE 0)),
              last |-> reply.kind]
        ELSE [messages EXCEPT !.ai = @ + 1, !.last = reply.kind]

AgentReasoner ==
    /\ node = "agent_reasoner"
    /\ \E reply \in ReasonerReplies, judge \in JudgeReplies :
        LET new == [state EXCEPT
                       !.messages = ReasonerMessages(@, reply),
                       !.analysis_failed = IF reply.kind = "raise" THEN TRUE ELSE @,
                       !.tool_calls = reply.tool_calls]
            route == router(new, judge)
        IN  /\ state' = new
            /\ node' = ReasonerEdge(route)
            /\ error' = IF route = "raise" THEN "judgment model call raised" ELSE error
    /\ Ran("agent_reasoner")
    /\ UNCHANGED <<graph, filterVars, collection, genVars, call, chromaVars, toolVars>>

\* ToolNode: one ToolMessage for each tool call of the latest message (a
\* failing tool answers with an error message)
ExecuteTools ==
    /\ node = "execute_tools"
    /\ state' = [state EXCEPT
                    !.messages = [@ EXCEPT !.tool = @ + state.tool_calls, !.last = "tool"],
                    !.tool_calls = 0]
    /\ node' = "agent_reasoner"
    /\ Ran("execute_tools")
    /\ UNCHANGED <<graph, error, filterVars, collection, genVars, call, chromaVars, toolVars>>

(***************************************************************************)
(* workflow/rag_agent_workflow.py: scenario_generator, classify_data       *)
(***************************************************************************)
ScenarioCreate(name, job_id, task_id, report_detail_id, steps) ==
    [present |-> TRUE, name |-> name, job_id |-> job_id, task_id |-> task_id,
     report_detail_id |-> report_detail_id, steps |-> steps]

\* what the structured-output model does: raises, answers with something that
\* is no ScenarioCreate, or answers with a scenario of its own making
\* the scenario of an "ok" answer carries the job_id and task_id the model wrote
ScenarioReplies ==
    {[kind |-> k, name |-> "", steps |-> 0, job_id |-> "", task_id |-> ""] :
        k \in {"raise", "invalid"}}
    \cup {[kind |-> "ok", name |-> n, steps |-> k, job_id |-> j, task_id |-> t] :
             n \in {"", "scenario"}, k \in 0..MaxScenarioSteps,
             j \in {"j1", "made up"}, t \in {"t1", "made up"}}

\* a scenario_generator that returns the model's scenario as it came
model_copy_without_update(report, job_id, task_id) == report

\* line 237: report.model_copy(update={"job_id": job_id, "task_id": task_id})
model_copy(report, job_id, task_id) ==
    [report EXCEPT !.job_id = job_id, !.task_id = task_id]

\* lines 152-254: the final_report, and how often the model was called for it
scenario_generator_run(s, reply) ==
    IF s.analysis_failed
    THEN [final_report |->
              ScenarioCreate("analysis failed", s.job_id, s.task_id, "analysis_failed", 0),
          invoked |-> 0]
    ELSE IF s.messages.tool = 0
    THEN [final_report |->
              ScenarioCreate("no search", s.job_id, s.task_id, "no_search", 0),
          invoked |-> 0]
    ELSE IF reply.kind = "ok"
    THEN [final_report |->
              model_copy(ScenarioCreate(reply.name, reply.job_id, reply.task_id, None,
                                        reply.steps),
                         s.job_id, s.task_id),
          invoked |-> 1]
    ELSE [final_report |->
              ScenarioCreate("generation failed", s.job_id, s.task_id, "llm_error", 0),
          invoked |-> 1]

scenario_generator(s, reply) == scenario_generator_run(s, reply).final_report

GenerateScenario ==
    /\ node = "generate_scenario"
    /\ \E reply \in ScenarioReplies :
        state' = [state EXCEPT !.final_report = scenario_generator(state, reply)]
    /\ node' = "classify_results"
    /\ Ran("generate_scenario")
    /\ UNCHANGED <<graph, error, filterVars, collection, genVars, call, chromaVars, toolVars>>

\* the classification text, "" when analysis failed or the model call raises
classify_data(s, reply) ==
    IF s.analysis_failed THEN ""
    ELSE IF reply = "raise" THEN ""
    ELSE reply

ClassifyResults ==
    /\ node = "classify_results"
    /\ \E reply \in {"raise", "", "classified"} :
        state' = [state EXCEPT !.context = classify_data(state, reply)]
    /\ node' = "END"
    /\ Ran("classify_results")
    /\ UNCHANGED <<graph, error, filterVars, collection, genVars, call, chromaVars, toolVars>>

(***************************************************************************)
(* common/test_backendclient.py: save_scenario, save_report                *)
(***************************************************************************)
\* the asserts of save_scenario: True when all pass, False otherwise
save_scenario(scenario) ==
    /\ scenario.task_id # ""
    /\ scenario.job_id # ""
    /\ scenario.name # ""
    /\ scenario.steps > 0

NoReportCreate == [present |-> FALSE, title |-> "", pc_id |-> "", task_id |-> "",
                   details |-> <<>>]

\* a save_report that does not check user_id
save_report_valid_no_user(report, user_id, job_id) ==
    /\ report.task_id # ""
    /\ report.pc_id # ""
    /\ report.title # ""
    /\ report.details # <<>>
    /\ job_id # ""

\* the asserts of save_report: when one fails it raises ValueError, otherwise
\* it answers with the stored report (which is truthy)
save_report_valid(report, user_id, job_id) ==
    /\ report.task_id # ""
    /\ report.pc_id # ""
    /\ report.title # ""
    /\ report.details # <<>>
    /\ user_id # ""
    /\ job_id # ""

(***************************************************************************)
(* common/report_exporters.py, common/models.py                            *)
(***************************************************************************)
\* the values of SectionTypeEnum, in definition order
SectionTypeEnum == <<0, 1, 2, 3, 4, 5, 6, 7, 8, 9, 10>>

\* A text is the sequence of its characters.  What the model of an exporter
\* can do: raise (as a missing field does), or answer with a text
NoneText == <<"n", "o", "n", "e">>

ReplyTexts ==
    {<<>>, <<" ">>, <<"x">>, NoneText, <<"N", "o", "n", "e">>, <<"N", "O", "N", "E">>,
     <<" ", "n", "o", "n", "e">>, <<"n", "o", "n", "e", ".">>}

ModelReplies ==
    {[kind |-> "raise", text |-> <<>>]} \cup {[kind |-> "text", text |-> t] : t \in ReplyTexts}

\* str.lower() on the characters the replies are made of
Lower(ch) ==
    CASE ch = "N" -> "n"
      [] ch = "O" -> "o"
      [] ch = "E" -> "e"
      [] OTHER -> ch

LowerText(text) == [i \in 1..Len(text) |-> Lower(text[i])]

\* not content or not content.strip()
IsBlank(text) == \A i \in 1..Len(text) : text[i] = " "

\* lines 49-73: the exporter create_llm_exporter builds; absent: content is None
create_llm_exporter(reply) ==
    IF reply.kind = "raise"
    THEN [raised |-> "Exception", absent |-> TRUE, content |-> <<>>]
    ELSE IF IsBlank(reply.text)
    THEN [raised |-> "BrokenPipeError", absent |-> TRUE, content |-> <<>>]
    ELSE [raised |-> "", absent |-> FALSE, content |-> reply.text]

\* an export_9 that hands the model's answer on as it is
export_9_unchecked(reply) == create_llm_exporter(reply)

\* lines 152-158
export_9(reply) ==
    LET result == create_llm_exporter(reply)
    IN  IF result.raised = "" /\ LowerText(result.content) = NoneText
        THEN [raised |-> "", absent |-> TRUE, content |-> <<>>]
        ELSE result

\* the sections whose exporter returns a fixed text without asking a model
StaticSections == {0, 3, 4}

ExporterReplies(sectiontype) ==
    IF sectiontype \in StaticSections THEN {[kind |-> "text", text |-> <<"x">>]}
    ELSE ModelReplies

\* lines 175-182: exporters.get(index)(data).get("content")
invoke_report_details(sectiontype, reply) ==
    IF sectiontype \in StaticSections
    THEN [raised |-> "", absent |-> FALSE, content |-> reply.text]
    ELSE IF sectiontype = 9 THEN export_9(reply)
    ELSE create_llm_exporter(reply)

(***************************************************************************)
(* pdf_export/exporter.py: PDFReportExporter.generate_and_upload           *)
(***************************************************************************)
\* a call of generate_and_upload: without the user_id argument the call itself
\* raises TypeError; otherwise the PDF is rendered and then uploaded, and a
\* failure of either is caught and answered with None
generate_and_upload(has_user_id, render_ok, upload_ok) ==
    IF ~has_user_id
    THEN [raised |-> "TypeError", url |-> None, render |-> 0, upload |-> 0]
    ELSE IF ~render_ok
    THEN [raised |-> "", url |-> None, render |-> 1, upload |-> 0]
    ELSE IF ~upload_ok
    THEN [raised |-> "", url |-> None, render |-> 1, upload |-> 1]
    ELSE [raised |-> "", url |-> "url", render |-> 1, upload |-> 1]

(***************************************************************************)
(* common/Generator.py: Generator.generate_report                          *)
(***************************************************************************)
NoFilter ==
    /\ f_pc = "idle"
    /\ f_chunks = <<>>
    /\ f_batch = 0
    /\ f_pending = {}
    /\ batch_results = <<>>
    /\ completed = <<>>
    /\ slow = {}
    /\ all_results = <<>>

NoCall == call = [fn |-> "none"]

\* the threads that call get_chroma_client, and how often each calls it
MaxThreads == 2
MaxClientCalls == 2
Threads == 1..MaxThreads

NoChroma ==
    /\ global_chroma_client = 0
    /\ global_client_path = None
    /\ client_lock = 0
    /\ threads = [t \in Threads |->
                    [pc |-> "idle", persist_directory |-> None, result |-> 0,
                     raised |-> "", calls |-> 0]]
    /\ constructed = <<>>

\* the workflow runs the process may hold at the same time, and how many
\* agent_reasoner turns each takes
Workflows == {"run1", "run2"}
MaxReasonerTurns == 3

\* tools.py lines 34-35: the class attributes before any set_context
ToolContextDefaults == [collection_name |-> "artifacts_collection", db_config |-> None]

AbsentRun ==
    [pc |-> "absent", collection_name |-> None, db_config |-> None, turns |-> 0,
     sets |-> 0, tool_calls |-> 0, read |-> ToolContextDefaults]

NoToolContext ==
    /\ ToolContext = ToolContextDefaults
    /\ workflow_runs = [w \in Workflows |-> AbsentRun]

NoRuns == [n \in Nodes |-> 0]

\* the locals scenario_saved and report_saved are FALSE until they are assigned
\* section9_reply is a history field: what the model answered for section 9
NoFrame == [task_id |-> "", job_id |-> "", artifacts |-> <<>>,
            scenario_saved |-> FALSE, report_saved |-> FALSE,
            pdf_error |-> "", pdf_url |-> None,
            section9_reply |-> [kind |-> "unasked", text |-> <<>>]]

NoSelf == [scenario |-> NoReport, context |-> None, report |-> NoReportCreate]

NoBackend == [scenario |-> None, report |-> None]

NoCalls == [invoke_scenarios |-> 0, save_scenario |-> 0, exporter |-> 0,
            save_report |-> 0, pdf |-> 0, render |-> 0, upload |-> 0]

NoState == InitialState("", "", <<>>, 0)

\* target_artifact_count of the state invoke_scenarios builds
scenario_target_count == 100000

\* a generate_report that generates the report details before it saves the scenario
StepAfterDetailsFirst(pc) ==
    CASE pc = "scenarios" -> "report_init"
      [] pc = "report_init" -> "details"
      [] pc = "details" -> "save_scenario"
      [] pc = "save_scenario" -> "save_report"
      [] pc = "save_report" -> "pdf"
      [] pc = "pdf" -> "returned"

\* the order of the steps of generate_report (lines 26, 30, 41, 46, 56, 57)
StepAfter(pc) ==
    CASE pc = "scenarios" -> "save_scenario"
      [] pc = "save_scenario" -> "report_init"
      [] pc = "report_init" -> "details"
      [] pc = "details" -> "save_report"
      [] pc = "save_report" -> "pdf"
      [] pc = "pdf" -> "returned"

\* a generate_report that goes on whatever save_scenario returned
AfterSaveScenarioUnchecked(scenario_saved) == StepAfter("save_scenario")

\* lines 32-34: if not scenario_saved: raise RuntimeError
AfterSaveScenario(scenario_saved) ==
    IF scenario_saved THEN StepAfter("save_scenario") ELSE "raised"

\* a _generate_pdf_report that lets the exception out
AfterPdfFailurePropagated(pdf_error) ==
    IF pdf_error = "" THEN StepAfter("pdf") ELSE "raised"

\* lines 159-170: except ImportError / except Exception: return None
AfterPdfFailure(pdf_error) == StepAfter("pdf")

\* line 26, _generate_scenarios: invoke_scenarios builds the initial state and
\* starts the full graph
InvokeScenarios ==
    /\ gen_pc = "start"
    /\ gen_pc' = "scenarios"
    /\ graph' = "full"
    /\ node' = "filter_artifacts"
    /\ state' = InitialState(frame.job_id, frame.task_id, frame.artifacts,
                             scenario_target_count)
    /\ runs' = NoRuns
    /\ calls' = [calls EXCEPT !.invoke_scenarios = @ + 1]
    /\ UNCHANGED <<error, filterVars, collection, frame, self, backend, call, chromaVars, toolVars>>

\* lines 62-64: the graph run has ended; invoke_scenarios returns the scenario
\* and the context of the final state, or lets the exception of the run out
ScenariosReturn ==
    /\ gen_pc = "scenarios"
    /\ node \in {"END", "RAISED"}
    /\ IF node = "RAISED"
       THEN /\ gen_pc' = "raised"
            /\ UNCHANGED self
       ELSE /\ gen_pc' = StepAfter("scenarios")
            /\ self' = [self EXCEPT !.scenario = state.final_report,
                                    !.context = state.context]
    /\ graph' = "none"
    /\ node' = "idle"
    /\ state' = NoState
    /\ runs' = NoRuns
    /\ f_chunks' = <<>>
    /\ completed' = <<>>
    /\ UNCHANGED <<error, f_pc, f_batch, f_pending, batch_results, slow, all_results,
                   collection, frame, backend, calls, call, chromaVars, toolVars>>

\* lines 30-36: backend_client.save_scenario(self.scenario)
SaveScenario ==
    /\ gen_pc = "save_scenario"
    /\ calls' = [calls EXCEPT !.save_scenario = @ + 1]
    /\ IF ~self.scenario.present
       THEN /\ gen_pc' = "raised"
            /\ error' = "AttributeError"
            /\ UNCHANGED <<frame, backend>>
       ELSE LET scenario_saved == save_scenario(self.scenario)
            IN  /\ frame' = [frame EXCEPT !.scenario_saved = scenario_saved]
                /\ backend' = IF scenario_saved
                              THEN [backend EXCEPT !.scenario = self.scenario]
                              ELSE backend
                /\ gen_pc' = AfterSaveScenario(scenario_saved)
                /\ error' = IF AfterSaveScenario(scenario_saved) = "raised"
                            THEN "RuntimeError" ELSE error
    /\ UNCHANGED <<graph, node, state, runs, filterVars, collection, self, call, chromaVars, toolVars>>

\* lines 68-81: _generate_report_details creates the empty report;
\* job_info["pc_info"]["pc_id"] raises KeyError when job_info lacks it
InitReport ==
    /\ gen_pc = "report_init"
    /\ \E pc_id \in {None, "", "pc1"} :
        IF pc_id = None
        THEN /\ gen_pc' = "raised"
             /\ error' = "KeyError"
             /\ UNCHANGED self
        ELSE /\ gen_pc' = StepAfter("report_init")
             /\ self' = [self EXCEPT !.report =
                             [present |-> TRUE, title |-> "report", pc_id |-> pc_id,
                              task_id |-> frame.task_id, details |-> <<>>]]
             /\ UNCHANGED error
    /\ UNCHANGED <<graph, node, state, runs, filterVars, collection, frame, backend,
                   calls, call, chromaVars, toolVars>>

\* lines 85-98: one turn of the loop over SectionTypeEnum
ExportSection ==
    /\ gen_pc = "details"
    /\ LET sectiontype == SectionTypeEnum[calls.exporter + 1]
           last == calls.exporter + 1 = Len(SectionTypeEnum)
       IN  \E reply \in ExporterReplies(sectiontype) :
            LET result == invoke_report_details(sectiontype, reply)
                content == IF result.raised # "" THEN "raise"
                           ELSE IF result.absent \/ result.content = <<>> THEN "none"
                           ELSE "content"
            IN
            /\ calls' = [calls EXCEPT !.exporter = @ + 1]
            /\ frame' = IF sectiontype = 9 THEN [frame EXCEPT !.section9_reply = reply]
                        ELSE frame
            /\ self' = IF content = "content"
                       THEN [self EXCEPT !.report.details = Append(@, sectiontype)]
                       ELSE self
            /\ gen_pc' = IF content = "raise" THEN "raised"
                         ELSE IF last THEN StepAfter("details")
                         ELSE "details"
            /\ error' = IF content = "raise" THEN "exporter raised" ELSE error
    /\ UNCHANGED <<graph, node, state, runs, filterVars, collection, backend, call, chromaVars, toolVars>>

\* lines 44-52: backend_client.save_report(self.report, user_id, job_id), with
\* user_id = job_info.get("user_id", "system")
SaveReport ==
    /\ gen_pc = "save_report"
    /\ calls' = [calls EXCEPT !.save_report = @ + 1]
    /\ \E given \in {None, "", "u1"} :
        LET user_id == IF given = None THEN "system" ELSE given IN
        IF save_report_valid(self.report, user_id, frame.job_id)
        THEN /\ frame' = [frame EXCEPT !.report_saved = TRUE]
             /\ backend' = [backend EXCEPT !.report = self.report]
             /\ gen_pc' = StepAfter("save_report")
             /\ UNCHANGED error
        ELSE /\ gen_pc' = "raised"
             /\ error' = "ValueError"
             /\ UNCHANGED <<frame, backend>>
    /\ UNCHANGED <<graph, node, state, runs, filterVars, collection, self, call, chromaVars, toolVars>>

\* lines 56-57 and 102-170: _generate_pdf_report(report_saved); building the
\* PDFReportExporter can raise, and generate_and_upload is called without
\* user_id
GeneratePdf ==
    /\ gen_pc = "pdf"
    /\ \E built \in BOOLEAN, render_ok \in BOOLEAN, upload_ok \in BOOLEAN :
        LET result == generate_and_upload(FALSE, render_ok, upload_ok)
            pdf_error == IF ~built THEN "exporter not built" ELSE result.raised
        IN  /\ calls' = [calls EXCEPT
                            !.pdf = @ + 1,
                            !.render = @ + (IF built THEN result.render ELSE 0),
                            !.upload = @ + (IF built THEN result.upload ELSE 0)]
            /\ frame' = [frame EXCEPT
                            !.pdf_error = pdf_error,
                            !.pdf_url = IF built THEN result.url ELSE None]
            /\ gen_pc' = AfterPdfFailure(pdf_error)
            /\ error' = IF AfterPdfFailure(pdf_error) = "raised" THEN pdf_error
                        ELSE error
    /\ UNCHANGED <<graph, node, state, runs, filterVars, collection, self, backend,
                   call, chromaVars, toolVars>>

Init ==
    /\ gen_pc = "start"
    /\ \E task_id \in {"", "t1"}, job_id \in {"", "j1"}, n \in 0..MaxGenArtifacts :
        frame = [NoFrame EXCEPT !.task_id = task_id, !.job_id = job_id,
                                !.artifacts = [k \in 1..n |-> k]]
    /\ self = NoSelf
    /\ backend = NoBackend
    /\ calls = NoCalls
    /\ graph = "none"
    /\ node = "idle"
    /\ state = NoState
    /\ runs = NoRuns
    /\ error = ""
    /\ collection = <<>>
    /\ NoFilter
    /\ NoCall
    /\ NoChroma
    /\ NoToolContext

Next ==
    \/ InvokeScenarios
    \/ FilterEnter
    \/ CollectChunk
    \/ ExtractResults
    \/ SaveData
    \/ AnalyzeRequirements
    \/ AgentReasoner
    \/ ExecuteTools
    \/ GenerateScenario
    \/ ClassifyResults
    \/ ScenariosReturn
    \/ SaveScenario
    \/ InitReport
    \/ ExportSection
    \/ SaveReport
    \/ GeneratePdf

Spec == Init /\ [][Next]_vars

\* C1: in every execution of generate_report no report-detail exporter is
\* invoked before save_scenario has returned truthy for the run's scenario, and
\* the PDF step does not begin before save_report has returned for the run's
\* report
C1_PersistedBeforeNextStage ==
    /\ (calls.exporter > 0 \/ gen_pc = "details")
        => /\ calls.save_scenario = 1
           /\ frame.scenario_saved
           /\ backend.scenario = self.scenario
    /\ (calls.pdf > 0 \/ calls.render > 0 \/ calls.upload > 0 \/ gen_pc = "pdf")
        => /\ calls.save_report = 1
           /\ frame.report_saved
           /\ backend.report = self.report

\* a run that went through both stages: exporters ran and the PDF step ran
C1_Witness ==
    /\ calls.exporter = Len(SectionTypeEnum)
    /\ calls.pdf = 1
    /\ gen_pc = "returned"

\* C2: if save_scenario returns false, generate_report raises and invokes no
\* report-detail exporter, no save_report and no PDF step
C2_AbortOnFailedScenarioSave ==
    (calls.save_scenario > 0 /\ self.scenario.present /\ ~save_scenario(self.scenario))
    => /\ gen_pc = "raised"
       /\ error = "RuntimeError"
       /\ calls.exporter = 0
       /\ calls.save_report = 0
       /\ calls.pdf = 0
       /\ calls.render = 0
       /\ calls.upload = 0
       /\ backend = NoBackend

\* save_scenario has returned false for a scenario the model wrote
C2_Witness ==
    /\ calls.save_scenario = 1
    /\ self.scenario.present
    /\ self.scenario.report_detail_id = None
    /\ ~save_scenario(self.scenario)
    /\ gen_pc = "raised"

\* C3: when the reasoning agent fails inside the run (analysis_failed), report
\* generation still completes with a persisted "analysis failed" report rather
\* than aborting: for a job with a task id and a job id, the "analysis failed"
\* scenario is accepted by save_scenario and generate_report does not raise its
\* RuntimeError
C3_AnalysisFailedReportPersisted ==
    (/\ self.scenario.report_detail_id = "analysis_failed"
     /\ calls.save_scenario > 0
     /\ frame.task_id # ""
     /\ frame.job_id # "")
    => /\ frame.scenario_saved
       /\ backend.scenario = self.scenario
       /\ error # "RuntimeError"

\* the part of C3 the code keeps: the flag is carried through generate_scenario
\* and classify_results, which answer with the fixed scenario and no context
C3_FlagCarried ==
    (graph = "full" /\ state.analysis_failed)
    => /\ node \in {"generate_scenario", "classify_results", "END"}
       /\ runs["generate_scenario"] > 0
           => state.final_report.report_detail_id = "analysis_failed"
       /\ runs["classify_results"] > 0 => state.context = ""

\* C4: once scenario and report are persisted, a failure of the PDF step is
\* swallowed: generate_report returns normally, no exception reaches the caller
\* and the persisted scenario and report are as they were saved
C4_PdfFailureSwallowed ==
    (calls.pdf > 0 /\ (frame.pdf_error # "" \/ frame.pdf_url = None))
    => /\ gen_pc = "returned"
       /\ error = ""
       /\ frame.scenario_saved
       /\ frame.report_saved
       /\ backend = [scenario |-> self.scenario, report |-> self.report]

\* the PDF step has failed after both saves
C4_Witness ==
    /\ calls.pdf = 1
    /\ frame.pdf_error # ""
    /\ frame.report_saved
    /\ gen_pc = "returned"

(***************************************************************************)
(* A run of a compiled graph on its own (part1_test.py, part2_test.py, the *)
(* __main__ blocks of the workflow modules).                               *)
(***************************************************************************)
\* the artifact pool of n artifacts
Pool(n) == [k \in 1..n |-> k]

\* the target counts the callers of the full graph pass
TargetCounts == {-1, 0, 1, part1_target_count}

NoGenerator ==
    /\ gen_pc = "idle"
    /\ frame = NoFrame
    /\ self = NoSelf
    /\ backend = NoBackend
    /\ calls = NoCalls

InitGraph ==
    /\ graph \in {"full", "part1"}
    /\ node = "filter_artifacts"
    /\ \E n \in 0..MaxArtifacts, target \in TargetCounts :
        /\ graph = "part1" => target = part1_target_count
        /\ graph = "full" => n <= MaxRunArtifacts
        /\ state = InitialState("j1", "t1", Pool(n), target)
    /\ runs = NoRuns
    /\ error = ""
    /\ collection \in {<<>>, <<0>>}
    /\ graph = "full" => collection = <<>>
    /\ NoFilter
    /\ NoGenerator
    /\ NoCall
    /\ NoChroma
    /\ NoToolContext

NextGraph ==
    \/ FilterEnter
    \/ CollectChunk
    \/ ExtractResults
    \/ SaveData
    \/ AnalyzeRequirements
    \/ AgentReasoner
    \/ ExecuteTools
    \/ GenerateScenario
    \/ ClassifyResults

SpecGraph == InitGraph /\ [][NextGraph]_vars

(***************************************************************************)
(* Properties of the graph runs.                                           *)
(***************************************************************************)
\* the nodes of the reasoning phase and after
LaterNodes == {"analyze_requirements", "agent_reasoner", "execute_tools",
               "generate_scenario", "classify_results"}

\* C5: starting from filter_iteration = 0, for any target count and any chunk
\* analysis outcomes, the filter node filters at most 3 times and the run always
\* leaves the filter loop towards extract_results: as long as extract_results
\* has not run, the run is still in the filter node and not ended by an exception
C5_FilterLoopExits ==
    /\ runs["filter_artifacts"] <= max_iterations
    /\ runs["extract_results"] = 0 /\ node # "extract_results"
        => node = "filter_artifacts"

\* the part of C5 the code keeps: at most 3 filterings, and a filter node that
\* returned hands over to extract_results after the third filtering at the latest
C5_AtMostThreeFilterings ==
    /\ runs["filter_artifacts"] <= max_iterations
    /\ state.filter_iteration = runs["filter_artifacts"]
    /\ runs["filter_artifacts"] = max_iterations /\ runs["extract_results"] = 0
        => node = "extract_results"

\* C8: in a full-graph run from an empty history agent_reasoner executes at
\* most 20 times, the total number of graph steps stays below the 80-step
\* budget, and the reasoning loop, once entered, exits to generate_scenario and
\* END: no run ends by an exception inside the loop
C8_ReasoningLoopExits ==
    graph = "full" =>
        /\ runs["agent_reasoner"] <= router_max_iterations
        /\ Steps < recursion_limit
        /\ runs["agent_reasoner"] > 0 => node # "RAISED"

\* the part of C8 the code keeps: the counts, and no way out of the loop other
\* than generate_scenario or the exception of the judgment model call
C8_ReasonerBounded ==
    graph = "full" =>
        /\ runs["agent_reasoner"] <= router_max_iterations
        /\ runs["agent_reasoner"] = state.messages.ai
        /\ runs["execute_tools"] < router_max_iterations
        /\ Steps < recursion_limit
        /\ runs["agent_reasoner"] = router_max_iterations
            => node \in {"generate_scenario", "classify_results", "END"}
        /\ node = "RAISED" /\ runs["agent_reasoner"] > 0
            => error = "judgment model call raised"

\* C9: in the full graph the run continues after save_data to
\* analyze_requirements only if data_save_status is "success"; on "failure" or
\* an absent status it ends at once: no later node runs, no final_report is set
C9_SaveGate ==
    /\ \A st \in {None, "", "failure", "success"} :
          SaveEdge("full", [data_save_status |-> st])
            = IF st = "success" THEN "analyze_requirements" ELSE "END"
    /\ graph = "full" =>
        /\ (node \in LaterNodes \/ \E n \in LaterNodes : runs[n] > 0)
            => state.data_save_status = "success"
        /\ runs["save_data"] > 0 /\ state.data_save_status # "success"
            => /\ node = "END"
               /\ \A n \in LaterNodes : runs[n] = 0
               /\ ~state.final_report.present

\* a full-graph run whose save failed has ended right after save_data
C9_Witness ==
    /\ graph = "full"
    /\ runs["save_data"] = 1
    /\ state.data_save_status = "failure"
    /\ node = "END"

\* a full-graph run whose save succeeded has gone on to the reasoning phase
C9_WitnessSuccess ==
    /\ graph = "full"
    /\ state.data_save_status = "success"
    /\ runs["analyze_requirements"] = 1

\* the chunk indices of a list of per-chunk results are 0, 1, 2, ...
InChunkOrder(results) == \A k \in 1..Len(results) : results[k].chunk_idx = k - 1

\* C10: whatever the completion order of the concurrent chunk analyses, the
\* results one recursive_filter_node iteration stores are in ascending chunk
\* index order, exactly one per input chunk
C10_ResultsInChunkOrder ==
    /\ InChunkOrder(all_results)
    /\ f_pc = "idle" /\ runs["filter_artifacts"] > 0 /\ runs["extract_results"] = 0
        /\ node # "RAISED"
        => /\ Len(state.intermediate_results) = Len(f_chunks)
           /\ InChunkOrder(state.intermediate_results)

\* an iteration has stored the results of a batch whose analyses completed out
\* of chunk order
C10_Witness ==
    /\ node = "extract_results"
    /\ Len(state.intermediate_results) >= 3
    /\ Len(completed) >= 3
    /\ completed[1] > completed[2]

(***************************************************************************)
(* workflow/classes.py: AgentState, create_initial_state                   *)
(***************************************************************************)
\* class AgentState(TypedDict, total=False)
AgentState_total == FALSE

\* the keys AgentState declares
AgentStateKeys ==
    {"job_id", "task_id", "job_info", "artifact_chunks", "intermediate_results",
     "filter_iteration", "target_artifact_count", "current_strictness",
     "current_chunk_index", "raw_user_requirements", "filtered_artifacts",
     "data_save_status", "collection_name", "db_config",
     "analyzed_user_requirements", "messages", "analysis_failed", "final_report",
     "context"}

\* AgentState.__required_keys__ and __optional_keys__: no key is annotated
\* Required or NotRequired, so the class's totality decides for all of them
AgentState_required_keys == IF AgentState_total THEN AgentStateKeys ELSE {}

AgentState_optional_keys == IF AgentState_total THEN {} ELSE AgentStateKeys

\* kwargs is a function from the keyword names to the values
create_initial_state(kwargs) ==
    LET missing_keys == AgentState_required_keys \ DOMAIN kwargs
        not_allowed_keys ==
            (DOMAIN kwargs \ AgentState_required_keys) \ AgentState_optional_keys
    IN  IF missing_keys # {} THEN [raised |-> "ValueError", value |-> <<>>]
        ELSE IF not_allowed_keys # {} THEN [raised |-> "ValueError", value |-> <<>>]
        ELSE [raised |-> "", value |-> kwargs]

(***************************************************************************)
(* recursive_filter_node invoked on a state its caller supplies, and       *)
(* re-invoked as long as the edge after it says "continue".                *)
(***************************************************************************)
\* largest filter_iteration and most surviving artifacts of a supplied state
MaxInitIteration == 3
MaxInitSurvivors == 3

InitFilter ==
    /\ graph = "part1"
    /\ node = "filter_artifacts"
    /\ \E n \in 0..MaxInitSurvivors, m \in 0..MaxInitSurvivors,
          it \in 0..MaxInitIteration, target \in TargetCounts :
        state = [InitialState("j1", "t1", Pool(n), target) EXCEPT
                    !.filter_iteration = it,
                    !.intermediate_results =
                        IF m = 0 THEN <<>>
                        ELSE <<ChunkAnalysisResult(0, 0, Pool(m), "llm")>>]
    /\ runs = NoRuns
    /\ error = ""
    /\ collection = <<>>
    /\ NoFilter
    /\ NoGenerator
    /\ NoCall
    /\ NoChroma
    /\ NoToolContext

NextFilter ==
    \/ FilterEnter
    \/ CollectChunk

SpecFilter == InitFilter /\ [][NextFilter]_vars

\* the results the node holds while it is inside an iteration
ResultsInProgress ==
    {batch_results[k][2] : k \in 1..Len(batch_results)}
    \cup {all_results[k] : k \in 1..Len(all_results)}

\* the results the state carries
ResultsOfState == {state.intermediate_results[k] : k \in 1..Len(state.intermediate_results)}

\* the ratios of C12 by iteration index, in thousandths
C12_Ratios == <<15, 25, 60>>

\* C12: recursive_filter_node filters with ratio 0.015 at filter_iteration 0,
\* 0.025 at iteration 1 and 0.06 at iteration 2, and when invoked with an
\* iteration index beyond the table it filters with the last defined ratio
\* 0.06: what it holds in progress, and what it leaves in the state after a
\* run, was filtered at the ratio of the clamped index of that run
C12_FiltersAtClampedRatio ==
    /\ f_pc = "collect" =>
        \A r \in ResultsInProgress :
            r.target_ratio = C12_Ratios[Min(state.filter_iteration, 2) + 1]
    /\ (runs["filter_artifacts"] > 0 /\ f_pc = "idle") =>
        \A r \in ResultsOfState :
            r.target_ratio = C12_Ratios[Min(state.filter_iteration - 1, 2) + 1]

\* C12 as the code has it: the node filters with ratio 0.015 at iteration 0,
\* 0.025 at iteration 1 and 0.06 at iteration 2, and invoked with an index of 3
\* or more it filters nothing and leaves the state as it was
C12_FiltersAtLevelOrReturns ==
    /\ f_pc = "collect" =>
        /\ state.filter_iteration \in 0..2
        /\ \A r \in ResultsInProgress :
            r.target_ratio = C12_Ratios[state.filter_iteration + 1]
    /\ (runs["filter_artifacts"] > 0 /\ f_pc = "idle") =>
        \A r \in ResultsOfState :
            \/ /\ state.filter_iteration \in 1..3
               /\ r.target_ratio = C12_Ratios[state.filter_iteration]
            \/ /\ state.filter_iteration >= 3
               /\ r.target_ratio = 0
               /\ runs["filter_artifacts"] = 1

\* the node has run once on a supplied state at index 3 that carries survivors,
\* and they are still the supplied ones
C12_Witness ==
    /\ runs["filter_artifacts"] = 1
    /\ state.filter_iteration = 3
    /\ node = "extract_results"
    /\ \E r \in ResultsOfState : r.target_ratio = 0 /\ Len(r.important_artifacts) = 2

\* the third iteration of a run from index 0 has filtered at 0.06
C12_WitnessLadder ==
    /\ runs["filter_artifacts"] = 3
    /\ state.filter_iteration = 3
    /\ \E r \in ResultsOfState : r.target_ratio = 60 /\ Len(r.important_artifacts) = 2

(***************************************************************************)
(* workflow/database.py: get_chroma_client, called by several threads.     *)
(* A client is the number of the PersistentClient construction that built  *)
(* it.                                                                     *)
(***************************************************************************)
Directories == {"d1", "d2"}

OtherVarsUnchanged ==
    UNCHANGED <<graphVars, filterVars, collection, genVars, call, toolVars>>

\* a thread calls get_chroma_client(config): line 170
GetClientCall ==
    /\ \E t \in Threads, persist_directory \in Directories :
        /\ threads[t].pc = "idle"
        /\ threads[t].calls < MaxClientCalls
        /\ threads' = [threads EXCEPT ![t] =
                          [pc |-> "fast_client", persist_directory |-> persist_directory,
                           result |-> 0, raised |-> "", calls |-> @.calls + 1]]
    /\ UNCHANGED <<global_chroma_client, global_client_path, client_lock, constructed>>
    /\ OtherVarsUnchanged

\* line 173, left operand: _global_chroma_client is not None, read without the lock
FastReadClient ==
    /\ \E t \in Threads :
        /\ threads[t].pc = "fast_client"
        /\ threads' = [threads EXCEPT ![t].pc =
                          IF global_chroma_client # 0 THEN "fast_path" ELSE "acquire"]
    /\ UNCHANGED <<global_chroma_client, global_client_path, client_lock, constructed>>
    /\ OtherVarsUnchanged

\* line 173, right operand: _global_client_path == persist_directory
FastReadPath ==
    /\ \E t \in Threads :
        /\ threads[t].pc = "fast_path"
        /\ threads' = [threads EXCEPT ![t].pc =
                          IF global_client_path = threads[t].persist_directory
                          THEN "fast_return" ELSE "acquire"]
    /\ UNCHANGED <<global_chroma_client, global_client_path, client_lock, constructed>>
    /\ OtherVarsUnchanged

\* line 174: return _global_chroma_client
FastReturn ==
    /\ \E t \in Threads :
        /\ threads[t].pc = "fast_return"
        /\ threads' = [threads EXCEPT ![t].pc = "idle",
                                      ![t].result = global_chroma_client]
    /\ UNCHANGED <<global_chroma_client, global_client_path, client_lock, constructed>>
    /\ OtherVarsUnchanged

\* line 177: with _client_lock
AcquireLock ==
    /\ \E t \in Threads :
        /\ threads[t].pc = "acquire"
        /\ client_lock = 0
        /\ client_lock' = t
        /\ threads' = [threads EXCEPT ![t].pc = "locked"]
    /\ UNCHANGED <<global_chroma_client, global_client_path, constructed>>
    /\ OtherVarsUnchanged

\* a get_chroma_client that replaces the client when another directory is asked for
LockedCheckReplacing(client, path, persist_directory) ==
    IF client # 0 /\ path = persist_directory THEN "return" ELSE "construct"

\* lines 179-189: the second check; both branches of the path comparison return
\* the existing client
LockedCheck(client, path, persist_directory) ==
    IF client # 0
    THEN IF path = persist_directory THEN "return" ELSE "return"
    ELSE "construct"

LockedCheckStep ==
    /\ \E t \in Threads :
        /\ threads[t].pc = "locked"
        /\ IF LockedCheck(global_chroma_client, global_client_path,
                          threads[t].persist_directory) = "return"
           THEN /\ threads' = [threads EXCEPT ![t].pc = "idle",
                                              ![t].result = global_chroma_client]
                /\ client_lock' = 0
           ELSE /\ threads' = [threads EXCEPT ![t].pc = "construct"]
                /\ UNCHANGED client_lock
    /\ UNCHANGED <<global_chroma_client, global_client_path, constructed>>
    /\ OtherVarsUnchanged

\* lines 194-200: _global_chroma_client = chromadb.PersistentClient(path=...), or
\* the constructor raises and the call raises ValueError
ConstructClient ==
    /\ \E t \in Threads, built \in BOOLEAN :
        /\ threads[t].pc = "construct"
        /\ IF built
           THEN /\ constructed' = Append(constructed, threads[t].persist_directory)
                /\ global_chroma_client' = Len(constructed) + 1
                /\ threads' = [threads EXCEPT ![t].pc = "set_path"]
                /\ UNCHANGED client_lock
           ELSE /\ threads' = [threads EXCEPT ![t].pc = "idle",
                                              ![t].raised = "ValueError"]
                /\ client_lock' = 0
                /\ UNCHANGED <<global_chroma_client, constructed>>
    /\ UNCHANGED global_client_path
    /\ OtherVarsUnchanged

\* lines 196-197: _global_client_path = persist_directory; return the client
SetPathAndReturn ==
    /\ \E t \in Threads :
        /\ threads[t].pc = "set_path"
        /\ global_client_path' = threads[t].persist_directory
        /\ threads' = [threads EXCEPT ![t].pc = "idle",
                                      ![t].result = global_chroma_client]
        /\ client_lock' = 0
    /\ UNCHANGED <<global_chroma_client, constructed>>
    /\ OtherVarsUnchanged

InitChroma ==
    /\ NoCall
    /\ NoChroma
    /\ NoToolContext
    /\ graph = "none"
    /\ node = "idle"
    /\ state = NoState
    /\ runs = NoRuns
    /\ error = ""
    /\ collection = <<>>
    /\ NoFilter
    /\ NoGenerator

NextChroma ==
    \/ GetClientCall
    \/ FastReadClient
    \/ FastReadPath
    \/ FastReturn
    \/ AcquireLock
    \/ LockedCheckStep
    \/ ConstructClient
    \/ SetPathAndReturn

SpecChroma == InitChroma /\ [][NextChroma]_vars

\* C18: for any number of threads calling get_chroma_client concurrently with
\* any persist_directory values, at most one client is ever constructed in the
\* process, every call returns that same client, and a call naming a directory
\* different from the stored one returns the existing client without replacing
\* it or the stored path
C18_OneClient ==
    /\ Len(constructed) <= 1
    /\ global_chroma_client \in {0, 1}
    /\ global_chroma_client = 1 <=> Len(constructed) = 1
    /\ \A t \in Threads :
        threads[t].result # 0 => threads[t].result = 1
    /\ global_client_path # None => global_client_path = constructed[1]
    /\ \A t \in Threads :
        (threads[t].pc = "idle" /\ threads[t].calls > 0) =>
            threads[t].result # 0 \/ threads[t].raised = "ValueError"

\* one thread built the client for d1 and another, asking for d2, was handed it
C18_Witness ==
    /\ constructed = <<"d1">>
    /\ global_client_path = "d1"
    /\ \E t \in Threads :
        /\ threads[t].pc = "idle"
        /\ threads[t].persist_directory = "d2"
        /\ threads[t].result = 1
    /\ \E t \in Threads :
        /\ threads[t].pc = "idle"
        /\ threads[t].persist_directory = "d1"
        /\ threads[t].result = 1

(***************************************************************************)
(* workflow/tools.py: ToolContext, and the workflow runs that set and read *)
(* it (rag_agent_workflow.py: agent_reasoner, execute_tools)               *)
(***************************************************************************)
\* a set_context that leaves db_config as it is
set_context_name_only(context, collection_name, db_config) ==
    [context EXCEPT !.collection_name = collection_name]

\* tools.py lines 37-41
set_context(context, collection_name, db_config) ==
    [collection_name |-> collection_name, db_config |-> db_config]

\* rag_agent_workflow.py lines 80-81: what agent_reasoner hands to set_context
ContextOfRun(run) ==
    [collection_name |-> IF run.collection_name = None THEN "artifacts_collection"
                         ELSE run.collection_name,
     db_config |-> run.db_config]

\* the values the state of run w may carry
StateValuesOfRun(w) ==
    IF w = "run1"
    THEN {[collection_name |-> c, db_config |-> "db1"] : c \in {None, "c1"}}
    ELSE {[collection_name |-> "c2", db_config |-> d] : d \in {None, "db2"}}

OtherVarsUnchangedByTools ==
    UNCHANGED <<graphVars, filterVars, collection, genVars, call, chromaVars>>

\* agent_reasoner, lines 80-150 and the router: set_context, then the model
\* asks for tools, or gives text and the run goes round again or on to
\* generate_scenario
ReasonerSetsContext ==
    /\ \E w \in Workflows, route \in {"tools", "continue", "generate_scenario"} :
        LET run == workflow_runs[w]
            context == ContextOfRun(run)
        IN  /\ run.pc = "agent_reasoner"
            /\ run.turns < MaxReasonerTurns \/ route = "generate_scenario"
            /\ ToolContext' = set_context(ToolContext, context.collection_name,
                                          context.db_config)
            /\ workflow_runs' = [workflow_runs EXCEPT ![w] =
                   [@ EXCEPT !.turns = @ + 1, !.sets = @ + 1,
                             !.pc = CASE route = "tools" -> "get_collection_name"
                                      [] route = "continue" -> "agent_reasoner"
                                      [] route = "generate_scenario" -> "done"]]
    /\ OtherVarsUnchangedByTools

\* tools.py line 263 (and 389): the tool reads ToolContext.get_collection_name()
ToolGetCollectionName ==
    /\ \E w \in Workflows :
        /\ workflow_runs[w].pc = "get_collection_name"
        /\ workflow_runs' = [workflow_runs EXCEPT ![w] =
               [@ EXCEPT !.read = [@ EXCEPT !.collection_name = ToolContext.collection_name],
                         !.pc = "get_db_config"]]
    /\ UNCHANGED ToolContext
    /\ OtherVarsUnchangedByTools

\* tools.py line 264 (and 391): the tool reads ToolContext.get_db_config(), and
\* the run goes back to agent_reasoner
ToolGetDbConfig ==
    /\ \E w \in Workflows :
        /\ workflow_runs[w].pc = "get_db_config"
        /\ workflow_runs' = [workflow_runs EXCEPT ![w] =
               [@ EXCEPT !.read = [@ EXCEPT !.db_config = ToolContext.db_config],
                         !.tool_calls = @ + 1,
                         !.pc = "agent_reasoner"]]
    /\ UNCHANGED ToolContext
    /\ OtherVarsUnchangedByTools

\* the process runs one workflow, or two at the same time; each starts at the
\* reasoning loop
InitToolContext ==
    /\ graph = "none"
    /\ node = "idle"
    /\ state = NoState
    /\ runs = NoRuns
    /\ error = ""
    /\ collection = <<>>
    /\ NoFilter
    /\ NoGenerator
    /\ NoCall
    /\ NoChroma
    /\ ToolContext = ToolContextDefaults
    /\ \E active \in (SUBSET Workflows) \ {{}} :
        workflow_runs \in
            {f \in [Workflows -> {AbsentRun} \cup
                        UNION {{[AbsentRun EXCEPT !.pc = "agent_reasoner",
                                                  !.collection_name = v.collection_name,
                                                  !.db_config = v.db_config] :
                                    v \in StateValuesOfRun(w)} : w \in Workflows}] :
                \A w \in Workflows :
                    IF w \in active
                    THEN /\ f[w].pc = "agent_reasoner"
                         /\ [collection_name |-> f[w].collection_name,
                             db_config |-> f[w].db_config] \in StateValuesOfRun(w)
                    ELSE f[w] = AbsentRun}

NextToolContext ==
    \/ ReasonerSetsContext
    \/ ToolGetCollectionName
    \/ ToolGetDbConfig

SpecToolContext == InitToolContext /\ [][NextToolContext]_vars

\* the runs that take part
ActiveRuns == {w \in Workflows : workflow_runs[w].pc # "absent"}

C26_WitnessSingleRun ==
    /\ ActiveRuns = {"run1"}
    /\ workflow_runs["run1"].sets = 3
    /\ workflow_runs["run1"].tool_calls = 2
    /\ workflow_runs["run1"].read = [collection_name |-> "c1", db_config |-> "db1"]

(***************************************************************************)
(* Calls of the pure functions.                                            *)
(***************************************************************************)
\* largest target count, iteration count and per-chunk survivor count of a call
MaxTarget == 4
MaxIteration == 4
MaxSurvivors == 2
\* most chunk results of a call
MaxResults == 2
\* values a keyword argument takes
MaxValue == 2

\* the keyword names the calls of create_initial_state choose from
KeywordNames ==
    {"job_id", "task_id", "job_info", "artifact_chunks", "intermediate_results",
     "filter_iteration", "target_artifact_count", "current_strictness",
     "messages", "undeclared"}

\* the lists of chunk results with the given numbers of surviving artifacts
ResultLists ==
    UNION {[1..n -> {ChunkAnalysisResult(0, 0, Pool(k), "llm") : k \in 0..MaxSurvivors}] :
             n \in 0..MaxResults}

\* a behaviour of the calls is one call
CallShouldContinue ==
    /\ call.fn = "none"
    /\ \E target \in -1..MaxTarget, iteration \in 0..MaxIteration,
          results \in ResultLists :
        LET s == [target_artifact_count |-> target, filter_iteration |-> iteration,
                  intermediate_results |-> results]
        IN  call' = [fn |-> "should_continue_filtering", args |-> s,
                     result |-> should_continue_filtering(s)]
    /\ UNCHANGED <<graphVars, filterVars, collection, genVars, chromaVars, toolVars>>

CallCreateInitialState ==
    /\ call.fn = "none"
    /\ \E names \in SUBSET KeywordNames :
        \E kwargs \in [names -> 1..MaxValue] :
            call' = [fn |-> "create_initial_state", args |-> kwargs,
                     result |-> create_initial_state(kwargs)]
    /\ UNCHANGED <<graphVars, filterVars, collection, genVars, chromaVars, toolVars>>

(***************************************************************************)
(* workflow/filter_node.py: the target count analyze_chunk_simple hands to *)
(* the filter model.  Ratios are in thousandths, as in strictness_levels.  *)
(***************************************************************************)
\* longest chunk of a call: the chunk size recursive_filter_node uses
MaxChunkLen == 300

Max(a, b) == IF a >= b THEN a ELSE b

\* an analyze_chunk_simple that rounds: round(x) of a non-negative x = num / 1000: to the nearest integer, a tie to
\* the even one
round_thousandths(num) ==
    LET q == num \div 1000
        r == num % 1000
    IN  IF 2 * r > 1000 \/ (2 * r = 1000 /\ q % 2 = 1) THEN q + 1 ELSE q

\* int(x) of a non-negative x = num / 1000
int_thousandths(num) == num \div 1000

\* line 250: target_count = max(5, int(len(chunk) * target_ratio))
target_count_hint(len, ratio) == Max(5, int_thousandths(len * ratio))

CallAnalyzeChunkHint ==
    /\ call.fn = "none"
    /\ \E len \in 0..MaxChunkLen, level \in 1..Len(strictness_levels) :
        LET ratio == strictness_levels[level].ratio
        IN  call' = [fn |-> "analyze_chunk_simple",
                     args |-> [len |-> len, ratio |-> ratio],
                     result |-> target_count_hint(len, ratio)]
    /\ UNCHANGED <<graphVars, filterVars, collection, genVars, chromaVars, toolVars>>

(***************************************************************************)
(* workflow/tools.py: artifact_search_tool.  Similarity thresholds and     *)
(* distances are in tenths.  A stored document is [id, score]: score is    *)
(* the distance the vector store reports for it against the query, kept    *)
(* on the returned artifact as a history field.                            *)
(***************************************************************************)
MAX_SEARCH_RESULTS == 300

\* largest max_results a call asks for, most documents that pass the metadata
\* filter of a call, and the largest distance of a document
MaxRequested == 500
MaxStored == 601
MaxDistance == 12

\* lines 423-436: max_results = int(requested_max), clamped, and the flag
ClampMaxResults(requested_max) ==
    IF requested_max > MAX_SEARCH_RESULTS
    THEN [max_results |-> MAX_SEARCH_RESULTS, limited |-> TRUE]
    ELSE IF requested_max < 1
    THEN [max_results |-> 1, limited |-> FALSE]
    ELSE [max_results |-> requested_max, limited |-> FALSE]

\* vectorstore.similarity_search_with_score(query, k, filter): the k nearest of
\* the documents that pass the filter, nearest first
similarity_search_with_score(stored, k) == SubSeq(stored, 1, Min(k, Len(stored)))

\* an artifact_search_tool that cuts the hits to search_k
TruncateToSearchK(filtered_results, max_results) ==
    SubSeq(filtered_results, 1, Min(2 * max_results, Len(filtered_results)))

\* line 488: filtered_results = filtered_results[:max_results]
TruncateResults(filtered_results, max_results) ==
    SubSeq(filtered_results, 1, Min(max_results, Len(filtered_results)))

\* lines 389-565; stored: the documents that pass the metadata filter, nearest
\* first; store_ok: whether the vector store answers or raises
artifact_search_tool(requested_max, similarity_threshold, stored, store_ok) ==
    LET clamp == ClampMaxResults(requested_max)
        max_results == clamp.max_results
        search_k == max_results * 2
        results_with_scores == similarity_search_with_score(stored, search_k)
        within(doc) == doc.score <= 10 - similarity_threshold
        filtered_results == TruncateResults(SelectSeq(results_with_scores, within),
                                            max_results)
    IN  IF store_ok
        THEN [artifacts |-> filtered_results, failed |-> FALSE,
              metadata |-> [requested |-> requested_max,
                            returned |-> Len(filtered_results),
                            filtered_from |-> Len(results_with_scores),
                            limited |-> clamp.limited,
                            threshold |-> similarity_threshold]]
        ELSE [artifacts |-> <<>>, failed |-> TRUE,
              metadata |-> [requested |-> requested_max, returned |-> 0,
                            filtered_from |-> 0, limited |-> FALSE,
                            threshold |-> similarity_threshold]]

\* the requests, thresholds and stores the calls choose from
RequestedMax == {-1, 0, 1, 2, MAX_SEARCH_RESULTS, MAX_SEARCH_RESULTS + 1, MaxRequested}
Thresholds == {0, 5, 9, 10}
StoredCounts == {0, 1, 2, MAX_SEARCH_RESULTS, MAX_SEARCH_RESULTS + 1, MaxStored}
FarDistances == {1, 6, MaxDistance}

\* near documents at distance 0 followed by far documents at distance far_score
StoredDocs(near, far, far_score) ==
    [k \in 1..(near + far) |->
        [id |-> k, score |-> IF k <= near THEN 0 ELSE far_score]]

CallArtifactSearchTool ==
    /\ call.fn = "none"
    /\ \E requested_max \in RequestedMax, similarity_threshold \in Thresholds,
          near \in StoredCounts, far \in StoredCounts, far_score \in FarDistances,
          store_ok \in BOOLEAN :
        /\ near + far <= MaxStored
        /\ call' = [fn |-> "artifact_search_tool",
                    args |-> [max_results |-> requested_max,
                              similarity_threshold |-> similarity_threshold,
                              stored |-> near + far],
                    result |-> artifact_search_tool(requested_max, similarity_threshold,
                                  StoredDocs(near, far, far_score), store_ok)]
    /\ UNCHANGED <<graphVars, filterVars, collection, genVars, chromaVars, toolVars>>

(***************************************************************************)
(* pdf_export/pdf_generator.py: transform_flat_to_hierarchical.  A detail  *)
(* is [section_type, content]; the calls give every detail its position   *)
(* in the input as content.  section_title stands for the title           *)
(* SECTION_TITLES gives the section_type (a different one per type).       *)
(***************************************************************************)
\* most details of a call and a section_type outside the mapping
MaxDetails == 3
UnmappedType == 99

\* lines 48-61, indexed by section_type + 1
SECTION_TO_MAIN_MAPPING == <<1, 1, 1, 1, 1, 2, 2, 2, 2, 2, 3, 3>>

\* a transform that drops the default: an unmapped type gets a group of its own
MainSectionNoDefault(section_type) ==
    IF section_type \in 0..(Len(SECTION_TO_MAIN_MAPPING) - 1)
    THEN SECTION_TO_MAIN_MAPPING[section_type + 1]
    ELSE 4

\* line 75: SECTION_TO_MAIN_MAPPING.get(section_type, 3)
MainSectionOf(section_type) ==
    IF section_type \in 0..(Len(SECTION_TO_MAIN_MAPPING) - 1)
    THEN SECTION_TO_MAIN_MAPPING[section_type + 1]
    ELSE 3

\* sorted(keys)
RECURSIVE SortedKeys(_)
SortedKeys(S) ==
    IF S = {} THEN <<>>
    ELSE LET least == CHOOSE x \in S : \A y \in S : x <= y
         IN  <<least>> \o SortedKeys(S \ {least})

\* lines 66-69: the details of one section_type, in input order
section_group(details, section_type) ==
    SelectSeq(details, LAMBDA d : d.section_type = section_type)

\* lines 72-82: the items of one main section: by ascending section_type, the
\* details of one type in input order
main_section_group(details, main_section_id) ==
    LET keys == SortedKeys({details[k].section_type : k \in 1..Len(details)})
        mine == SelectSeq(keys, LAMBDA t : MainSectionOf(t) = main_section_id)
    IN  Flatten([i \in 1..Len(mine) |-> section_group(details, mine[i])])

\* a transform that numbers the sub-sections from 0
SectionOrderFromZero(idx) == idx - 1

\* line 93: enumerate(items, 1)
SectionOrder(idx) == idx

\* lines 64-109
transform_flat_to_hierarchical(details) ==
    LET main_ids == SortedKeys({MainSectionOf(details[k].section_type) :
                                   k \in 1..Len(details)})
    IN  [m \in 1..Len(main_ids) |->
            LET items == main_section_group(details, main_ids[m])
            IN  [main_order |-> main_ids[m],
                 sections |-> [idx \in 1..Len(items) |->
                                  [section_order |-> SectionOrder(idx),
                                   section_title |-> items[idx].section_type,
                                   content |-> items[idx].content]]]]

\* the detail lists the calls choose from
SectionTypes == 0..11 \cup {UnmappedType}
DetailLists ==
    UNION {{[k \in 1..n |-> [section_type |-> types[k], content |-> k]] :
               types \in [1..n -> SectionTypes]} : n \in 0..MaxDetails}

CallTransform ==
    /\ call.fn = "none"
    /\ \E details \in DetailLists :
        call' = [fn |-> "transform_flat_to_hierarchical", args |-> details,
                 result |-> transform_flat_to_hierarchical(details)]
    /\ UNCHANGED <<graphVars, filterVars, collection, genVars, chromaVars, toolVars>>

(***************************************************************************)
(* pdf_export/exporter.py and s3_manager.py: the temp file of              *)
(* generate_and_upload.  exists: whether a file is at temp_path.           *)
(***************************************************************************)
\* what rendering, upload and os.remove can do
RenderOutcomes == {"ok", "raise_before_write", "raise_after_write"}
UploadOutcomes == {"url", "none", "raise"}

\* s3_manager.py lines 128-148: os.remove may fail (the file is in use, the
\* directory is read-only); the failure is logged and answered with False
delete_local_file(exists, remove_ok) ==
    IF ~exists THEN [exists |-> FALSE, result |-> FALSE]
    ELSE IF remove_ok THEN [exists |-> FALSE, result |-> TRUE]
    ELSE [exists |-> TRUE, result |-> FALSE]

\* a generate_and_upload that removes the temp file as the last step of the
\* try block
DeleteAfterUpload(delete_local, exists, raised_in_try, remove_ok) ==
    IF delete_local /\ exists /\ ~raised_in_try
    THEN delete_local_file(exists, remove_ok).exists
    ELSE exists

\* exporter.py lines 98-101: the finally block
DeleteInFinally(delete_local, exists, raised_in_try, remove_ok) ==
    IF delete_local /\ exists
    THEN delete_local_file(exists, remove_ok).exists
    ELSE exists

\* exporter.py lines 59-101, called with a user_id and a file name
generate_and_upload_temp_file(exists_before, render, upload, remove_ok, delete_local) ==
    LET rendered == render = "ok"
        exists_after_render == IF render = "raise_before_write" THEN exists_before
                               ELSE TRUE
        raised_in_try == ~rendered \/ upload = "raise"
        s3_url == IF rendered /\ upload = "url" THEN "url" ELSE None
    IN  [raised |-> "",
         url |-> s3_url,
         exists |-> DeleteInFinally(delete_local, exists_after_render, raised_in_try,
                                    remove_ok)]

CallGenerateAndUpload ==
    /\ call.fn = "none"
    /\ \E exists_before \in BOOLEAN, render \in RenderOutcomes,
          upload \in UploadOutcomes, remove_ok \in BOOLEAN, delete_local \in BOOLEAN :
        call' = [fn |-> "generate_and_upload",
                 args |-> [exists_before |-> exists_before, render |-> render,
                           upload |-> upload, remove_ok |-> remove_ok,
                           delete_local |-> delete_local],
                 result |-> generate_and_upload_temp_file(exists_before, render, upload,
                                                          remove_ok, delete_local)]
    /\ UNCHANGED <<graphVars, filterVars, collection, genVars, chromaVars, toolVars>>

(***************************************************************************)
(* common/test_backendclient.py: what save_scenario and save_report answer *)
(***************************************************************************)
\* lines 334-344: the AssertionError is caught and answered with False
save_scenario_call(scenario) ==
    [raised |-> "", value |-> save_scenario(scenario)]

\* lines 346-400: the AssertionError is re-raised as ValueError; otherwise the
\* response is a dict with the keys report and details
save_report(report, user_id, job_id) ==
    IF save_report_valid(report, user_id, job_id)
    THEN [raised |-> "",
          value |-> [report |-> [title |-> report.title, pc_id |-> report.pc_id,
                                 created_by |-> user_id],
                     details |-> report.details]]
    ELSE [raised |-> "ValueError", value |-> [x \in {} |-> 0]]

\* bool(d) of a dict
Truthy(d) == DOMAIN d # {}

\* the values a string argument takes: missing or given
StringValues == {"", "x"}

CallSaveScenario ==
    /\ call.fn = "none"
    /\ \E task_id \in StringValues, job_id \in StringValues, name \in StringValues,
          steps \in 0..MaxScenarioSteps :
        LET scenario == [task_id |-> task_id, job_id |-> job_id, name |-> name,
                         steps |-> steps]
        IN  call' = [fn |-> "save_scenario", args |-> scenario,
                     result |-> save_scenario_call(scenario)]
    /\ UNCHANGED <<graphVars, filterVars, collection, genVars, chromaVars, toolVars>>

CallSaveReport ==
    /\ call.fn = "none"
    /\ \E task_id \in StringValues, pc_id \in StringValues, title \in StringValues,
          details \in {<<>>, <<0>>}, user_id \in StringValues, job_id \in StringValues :
        LET report == [task_id |-> task_id, pc_id |-> pc_id, title |-> title,
                       details |-> details]
        IN  call' = [fn |-> "save_report",
                     args |-> [report |-> report, user_id |-> user_id, job_id |-> job_id],
                     result |-> save_report(report, user_id, job_id)]
    /\ UNCHANGED <<graphVars, filterVars, collection, genVars, chromaVars, toolVars>>

(***************************************************************************)
(* workflow/rag_agent_workflow.py: router on the states agent_reasoner     *)
(* leaves behind                                                           *)
(***************************************************************************)
MaxAiTurns == 21

\* the message histories router is called with: agent_reasoner has just added
\* an assistant message
RouterMessages ==
    {[ai |-> a, tool |-> t, other |-> 2, last |-> l] :
        a \in 1..MaxAiTurns, t \in 0..1, l \in {"ai_text", "ai_empty", "ai_tools"}}

CallRouter ==
    /\ call.fn = "none"
    /\ \E messages \in RouterMessages, analysis_failed \in BOOLEAN, judge \in JudgeReplies :
        LET s == [messages |-> messages, analysis_failed |-> analysis_failed]
            route == router(s, judge)
        IN  call' = [fn |-> "router",
                     args |-> [state |-> s, judge |-> judge],
                     result |-> [route |-> route, next |-> ReasonerEdge(route)]]
    /\ UNCHANGED <<graphVars, filterVars, collection, genVars, chromaVars, toolVars>>

(***************************************************************************)
(* workflow/filter_node.py: the retry loop of analyze_chunk_simple         *)
(***************************************************************************)
\* the answers the filter model has ready: one more than the loop can ask for
AvailableReplies == [1..(max_retries + 2) -> FilterReplies]

CallAnalyzeChunk ==
    /\ call.fn = "none"
    /\ \E n \in 0..chunk_size, replies \in AvailableReplies :
        call' = [fn |-> "analyze_chunk_retry",
                 args |-> [chunk |-> Pool(n), replies |-> replies],
                 result |-> [value |-> analyze_chunk_simple(Pool(n), 0, 0, replies),
                             invoked |-> InvokeCount(replies, 0)]]
    /\ UNCHANGED <<graphVars, filterVars, collection, genVars, chromaVars, toolVars>>

(***************************************************************************)
(* workflow/rag_agent_workflow.py: scenario_generator on its four paths    *)
(***************************************************************************)
CallScenarioGenerator ==
    /\ call.fn = "none"
    /\ \E job_id \in {"j1", "j2"}, task_id \in {"t1", "t2"}, analysis_failed \in BOOLEAN,
          tool \in 0..1, reply \in ScenarioReplies :
        LET s == [job_id |-> job_id, task_id |-> task_id,
                  analysis_failed |-> analysis_failed,
                  messages |-> [ai |-> 1, tool |-> tool, other |-> 2, last |-> "ai_text"]]
        IN  call' = [fn |-> "scenario_generator",
                     args |-> [state |-> s, reply |-> reply],
                     result |-> scenario_generator_run(s, reply)]
    /\ UNCHANGED <<graphVars, filterVars, collection, genVars, chromaVars, toolVars>>

(***************************************************************************)
(* pdf_export/pdf_generator.py: check_space, new_page, render_section_new, *)
(* generate_from_json. Lengths are in points; the cursor is the page being *)
(* drawn and the height current_y on it.                                   *)
(***************************************************************************)
\* lines 131-132
top == 750
min_y == 50

\* how many main sections a report has and how many sections each holds
MaxMainSections == 2
MaxSubsections == 2

\* the height the content of a section takes: nothing, or a block that leaves
\* half a page, or a block that leaves the cursor at the foot of the page
ContentHeights == {0, 300, 620}

\* lines 417-425
new_page(cursor) == [current_page |-> cursor.current_page + 1, current_y |-> top]

\* lines 413-415
check_space(cursor, h) ==
    IF cursor.current_y - h - 15 < min_y THEN new_page(cursor) ELSE cursor

\* self.current_y -= h
Advance(cursor, h) == [cursor EXCEPT !.current_y = @ - h]

\* lines 794-819: a block of height block_h is given room, then drawn
render_markdown_content(cursor, block_h) ==
    IF block_h = 0 THEN cursor ELSE Advance(check_space(cursor, block_h), block_h)

\* lines 1141-1162: the sections of a main section; each title is recorded
\* (toc_entries.append with collect_toc, and bookmarkPage) at the page the
\* cursor is on, then given room, then drawn
RECURSIVE RenderSections(_, _, _)
RenderSections(cursor, contents, titles) ==
    IF contents = <<>> THEN [cursor |-> cursor, titles |-> titles]
    ELSE LET recorded == cursor.current_page
             at_title == check_space(cursor, 24)
             drawn == at_title.current_page
             after == Advance(render_markdown_content(Advance(at_title, 26),
                                                      Head(contents)), 22)
         IN  RenderSections(after, Tail(contents),
                            Append(titles, [is_main |-> FALSE, recorded |-> recorded,
                                            drawn |-> drawn]))

\* lines 1116-1162
render_section_new(cursor, contents, is_first_section, titles) ==
    LET start == IF ~is_first_section THEN new_page(cursor) ELSE cursor
        recorded == start.current_page
        at_title == check_space(start, 30)
        drawn == at_title.current_page
    IN  RenderSections(Advance(at_title, 32), contents,
                       Append(titles, [is_main |-> TRUE, recorded |-> recorded,
                                       drawn |-> drawn]))

\* lines 1206-1228 and 1239-1261: one rendering pass over the main sections
RECURSIVE RenderPass(_, _, _, _)
RenderPass(cursor, main_sections, first_section, titles) ==
    IF main_sections = <<>> THEN titles
    ELSE LET rendered == render_section_new(cursor, Head(main_sections), first_section,
                                            titles)
         IN  RenderPass(rendered.cursor, Tail(main_sections), FALSE, rendered.titles)

\* lines 1164-1266: the first pass collects the page of each table-of-contents
\* entry, the second sets the bookmarks and draws the titles
generate_from_json(main_sections) ==
    LET start == [current_page |-> 3, current_y |-> top]
        first == RenderPass(start, main_sections, TRUE, <<>>)
        second == RenderPass(start, main_sections, TRUE, <<>>)
    IN  [k \in 1..Len(first) |->
            [is_main |-> first[k].is_main,
             toc_page |-> first[k].recorded,
             drawn_in_first |-> first[k].drawn,
             bookmark_page |-> second[k].recorded,
             drawn_page |-> second[k].drawn]]

\* the contents of the sections of one main section, and the main sections of
\* a report
SectionContents == UNION {[1..n -> ContentHeights] : n \in 1..MaxSubsections}
MainSections == UNION {[1..n -> SectionContents] : n \in 1..MaxMainSections}

CallGenerateFromJson ==
    /\ call.fn = "none"
    /\ \E main_sections \in MainSections :
        call' = [fn |-> "generate_from_json", args |-> main_sections,
                 result |-> generate_from_json(main_sections)]
    /\ UNCHANGED <<graphVars, filterVars, collection, genVars, chromaVars, toolVars>>

InitPure ==
    /\ NoCall
    /\ NoChroma
    /\ NoToolContext
    /\ graph = "none"
    /\ node = "idle"
    /\ state = NoState
    /\ runs = NoRuns
    /\ error = ""
    /\ collection = <<>>
    /\ NoFilter
    /\ NoGenerator

NextPure ==
    \/ CallShouldContinue
    \/ CallCreateInitialState
    \/ CallAnalyzeChunkHint
    \/ CallArtifactSearchTool
    \/ CallTransform
    \/ CallGenerateAndUpload
    \/ CallSaveScenario
    \/ CallSaveReport
    \/ CallRouter
    \/ CallAnalyzeChunk
    \/ CallScenarioGenerator
    \/ CallGenerateFromJson

SpecPure == InitPure /\ [][NextPure]_vars

\* C6: for every target count, iteration count and surviving count,
\* should_continue_filtering returns "synthesize" exactly when the surviving
\* count is <= the target count or the iteration count is >= 3, and "continue"
\* otherwise
C6_SynthesizeExactlyWhen ==
    call.fn = "should_continue_filtering" =>
        LET surviving == SumLen([i \in 1..Len(call.args.intermediate_results) |->
                            call.args.intermediate_results[i].important_artifacts])
            done == \/ surviving <= call.args.target_artifact_count
                    \/ call.args.filter_iteration >= 3
        IN  call.result = IF done THEN "synthesize" ELSE "continue"

\* a call below the iteration cap with more survivors than the target
C6_Witness ==
    /\ call.fn = "should_continue_filtering"
    /\ call.args.filter_iteration = 2
    /\ call.args.target_artifact_count = 3
    /\ Len(call.args.intermediate_results) = 2
    /\ call.result = "continue"

\* the keys C7 calls required
C7_RequiredKeys ==
    {"job_id", "task_id", "job_info", "artifact_chunks", "intermediate_results",
     "filter_iteration", "target_artifact_count", "current_strictness"}

\* C7: create_initial_state raises for every call that omits a required key or
\* passes a key AgentState does not declare, and otherwise returns exactly the
\* supplied key/value pairs
C7_RejectsMissingAndUndeclared ==
    call.fn = "create_initial_state" =>
        IF \/ ~(C7_RequiredKeys \subseteq DOMAIN call.args)
           \/ ~(DOMAIN call.args \subseteq AgentStateKeys)
        THEN call.result.raised # ""
        ELSE call.result = [raised |-> "", value |-> call.args]

\* the part of C7 the code keeps: undeclared keys are rejected, and every other
\* call returns exactly the supplied pairs
C7_RejectsUndeclared ==
    call.fn = "create_initial_state" =>
        IF ~(DOMAIN call.args \subseteq AgentStateKeys)
        THEN call.result.raised = "ValueError"
        ELSE call.result = [raised |-> "", value |-> call.args]

C13_ClampedAndWithinThreshold ==
    call.fn = "artifact_search_tool" =>
        LET requested == call.args.max_results
            clamped == IF requested > 300 THEN 300
                       ELSE IF requested < 1 THEN 1 ELSE requested
            artifacts == call.result.artifacts
        IN  /\ call.result.metadata.filtered_from <= 2 * clamped
            /\ ~call.result.failed => (call.result.metadata.limited <=> requested > 300)
            /\ Len(artifacts) <= clamped
            /\ call.result.metadata.returned = Len(artifacts)
            /\ \A k \in 1..Len(artifacts) :
                artifacts[k].score <= 10 - call.args.similarity_threshold

\* a request of 500 over a store with more than 300 near documents and a
\* threshold of 0.9: 300 artifacts come back, flagged limited
C13_Witness ==
    /\ call.fn = "artifact_search_tool"
    /\ call.args.max_results = MaxRequested
    /\ call.args.similarity_threshold = 9
    /\ call.args.stored = MaxStored
    /\ call.result.metadata.limited
    /\ call.result.metadata.filtered_from = 600
    /\ Len(call.result.artifacts) = 300

\* the positions in the input of the details main group g of the output holds,
\* in the order of its sub-sections
GroupContents(g) == [i \in 1..Len(g.sections) |-> g.sections[i].content]

\* the main groups of the output are in ascending main_order, one for each
\* mapped group that has at least one detail, and the sub-sections of each are
\* numbered 1, 2, ..., N
GroupsAscendingAndNumbered(details, out) ==
    /\ \A a, b \in 1..Len(out) : a < b => out[a].main_order < out[b].main_order
    /\ {out[a].main_order : a \in 1..Len(out)}
         = {MainSectionOf(details[k].section_type) : k \in 1..Len(details)}
    /\ \A a \in 1..Len(out) :
        /\ Len(out[a].sections) > 0
        /\ \A i \in 1..Len(out[a].sections) : out[a].sections[i].section_order = i

\* C14: for every flat detail list in any input order,
\* transform_flat_to_hierarchical emits one main group for each mapped group
\* that has at least one detail, in ascending main_order, and numbers the
\* sub-sections of each group 1, 2, ..., N consecutively in the order the
\* details were encountered in the input, irrespective of their section_type
C14_NumberedInInputOrder ==
    call.fn = "transform_flat_to_hierarchical" =>
        LET details == call.args
            out == call.result
        IN  /\ GroupsAscendingAndNumbered(details, out)
            /\ \A a \in 1..Len(out) :
                LET mine == SelectSeq(details,
                                LAMBDA d : MainSectionOf(d.section_type) = out[a].main_order)
                IN  GroupContents(out[a]) = [i \in 1..Len(mine) |-> mine[i].content]

\* C14 as the code has it: the groups are as stated and numbered 1, 2, ..., N,
\* and the sub-sections of a group are in ascending section_type, the details
\* of one section_type in input order
C14_NumberedInTypeOrder ==
    call.fn = "transform_flat_to_hierarchical" =>
        LET details == call.args
            out == call.result
        IN  /\ GroupsAscendingAndNumbered(details, out)
            /\ \A a \in 1..Len(out) :
                LET sections == out[a].sections IN
                /\ {sections[i].content : i \in 1..Len(sections)}
                     = {k \in 1..Len(details) :
                          MainSectionOf(details[k].section_type) = out[a].main_order}
                /\ \A i \in 1..Len(sections) :
                    sections[i].section_title = details[sections[i].content].section_type
                /\ \A i, j \in 1..Len(sections) :
                    i < j =>
                        \/ sections[i].section_title < sections[j].section_title
                        \/ /\ sections[i].section_title = sections[j].section_title
                           /\ sections[i].content < sections[j].content

\* details of types 6, 5, 6 in that order: one group, the detail of type 5 is
\* numbered 1
C14_Witness ==
    /\ call.fn = "transform_flat_to_hierarchical"
    /\ Len(call.args) = 3
    /\ call.args[1].section_type = 6
    /\ call.args[2].section_type = 5
    /\ call.args[3].section_type = 6
    /\ Len(call.result) = 1
    /\ GroupContents(call.result[1]) = <<2, 1, 3>>

\* C15: every section_type 0..11 maps to a main group in {1, 2, 3}, a detail
\* whose section_type is outside the mapping is placed in main group 3, and
\* every input detail appears in exactly one main group of the output
C15_EveryDetailInOneGroup ==
    call.fn = "transform_flat_to_hierarchical" =>
        LET details == call.args
            out == call.result
            places(k) == {<<a, i>> \in (1..Len(out)) \X (1..Len(details)) :
                            /\ i <= Len(out[a].sections)
                            /\ out[a].sections[i].content = k}
        IN  \A k \in 1..Len(details) :
                /\ Cardinality(places(k)) = 1
                /\ \A pl \in places(k) :
                    /\ out[pl[1]].main_order \in {1, 2, 3}
                    /\ details[k].section_type \notin 0..11 => out[pl[1]].main_order = 3

\* a detail of an unmapped type shares main group 3 with a mapped one, next to
\* a group 1
C15_Witness ==
    /\ call.fn = "transform_flat_to_hierarchical"
    /\ Len(call.args) = 3
    /\ call.args[1].section_type = UnmappedType
    /\ call.args[2].section_type = 0
    /\ call.args[3].section_type = 11
    /\ Len(call.result) = 2
    /\ call.result[2].main_order = 3
    /\ GroupContents(call.result[2]) = <<3, 1>>

C17_IsNone(text) ==
    /\ Len(text) = 4
    /\ text[1] \in {"n", "N"}
    /\ text[2] \in {"o", "O"}
    /\ text[3] \in {"n", "N"}
    /\ text[4] \in {"e", "E"}

\* the sections other than 9 whose exporter has produced content: all that
\* were asked, but the one whose exporter raised
C17_OthersWithContent ==
    {SectionTypeEnum[k] : k \in 1..calls.exporter} \ 
        ({9} \cup (IF error = "exporter raised"
                   THEN {SectionTypeEnum[calls.exporter]} ELSE {}))

\* C17: if the model's response for section 9 equals "none" ignoring case, the
\* section-9 exporter yields an absent content value and the report the
\* orchestrator assembles contains no detail for section 9, while every other
\* section that produced content is still included
C17_Section9Omitted ==
    (frame.section9_reply.kind = "text" /\ C17_IsNone(frame.section9_reply.text)) =>
        LET details == self.report.details
            included == {details[k] : k \in 1..Len(details)}
        IN  /\ export_9(frame.section9_reply).raised = ""
            /\ export_9(frame.section9_reply).absent
            /\ 9 \notin included
            /\ included = C17_OthersWithContent

\* the model answered "NONE" for section 9 and the report was assembled and
\* saved with the ten other sections
C17_Witness ==
    /\ frame.section9_reply = [kind |-> "text", text |-> <<"N", "O", "N", "E">>]
    /\ calls.exporter = Len(SectionTypeEnum)
    /\ self.report.details = <<0, 1, 2, 3, 4, 5, 6, 7, 8, 10>>
    /\ frame.report_saved
    /\ backend.report = self.report

\* C19: whenever save_data_node reports data_save_status "success" for a run,
\* the collection "artifacts_collection" holds exactly that run's
\* filtered_artifacts and nothing stored by an earlier run, whatever the
\* collection held before, including when the delete step fails or
\* filtered_artifacts is empty
C19_CollectionHoldsRunOnly ==
    (runs["save_data"] > 0 /\ state.data_save_status = "success") =>
        collection = state.filtered_artifacts

\* what the code keeps of C19: after a save reported as success the collection
\* ends with the run's filtered_artifacts, after whatever the failed delete left
C19_CollectionEndsWithRun ==
    (runs["save_data"] > 0 /\ state.data_save_status = "success") =>
        /\ Len(collection) >= Len(state.filtered_artifacts)
        /\ SubSeq(collection, Len(collection) - Len(state.filtered_artifacts) + 1,
                  Len(collection)) = state.filtered_artifacts
        /\ \A k \in 1..(Len(collection) - Len(state.filtered_artifacts)) :
            collection[k] = 0

\* C20: save_scenario returns false without raising when task_id, job_id, name
\* or a non-empty step list is missing, whereas save_report raises an
\* input-validation error, never returning a falsy value, when task_id, pc_id,
\* title, a non-empty details list, user_id or job_id is missing
C20_FalseVersusRaise ==
    /\ call.fn = "save_scenario" =>
        LET missing == \/ call.args.task_id = ""
                       \/ call.args.job_id = ""
                       \/ call.args.name = ""
                       \/ call.args.steps = 0
        IN  /\ call.result.raised = ""
            /\ call.result.value = ~missing
    /\ call.fn = "save_report" =>
        LET missing == \/ call.args.report.task_id = ""
                       \/ call.args.report.pc_id = ""
                       \/ call.args.report.title = ""
                       \/ call.args.report.details = <<>>
                       \/ call.args.user_id = ""
                       \/ call.args.job_id = ""
        IN  IF missing THEN call.result.raised = "ValueError"
            ELSE call.result.raised = "" /\ Truthy(call.result.value)

\* save_report raised for a report that lacks only the user_id
C20_Witness ==
    /\ call.fn = "save_report"
    /\ call.args.user_id = ""
    /\ call.args.job_id = "x"
    /\ call.args.report = [task_id |-> "x", pc_id |-> "x", title |-> "x",
                           details |-> <<0>>]
    /\ call.result.raised = "ValueError"

\* save_scenario answered False for a scenario that lacks only its steps
C20_WitnessScenario ==
    /\ call.fn = "save_scenario"
    /\ call.args = [task_id |-> "x", job_id |-> "x", name |-> "x", steps |-> 0]
    /\ call.result = [raised |-> "", value |-> FALSE]

\* C21: router applies its rules in a fixed priority: analysis_failed set ->
\* generate_scenario; otherwise 20 or more assistant turns -> generate_scenario;
\* otherwise pending tool calls on the latest message -> execute_tools;
\* otherwise the completion judgment chooses between generate_scenario and
\* another agent_reasoner turn. So the next node is never execute_tools once
\* the failure flag is set or 20 assistant turns exist, even when the latest
\* message requests tool calls.
C21_RouterPriority ==
    call.fn = "router" =>
        LET s == call.args.state
            judge == call.args.judge
            route == call.result.route
            failed == s.analysis_failed
            broken == s.messages.ai >= 20
            pending == s.messages.last = "ai_tools"
        IN  /\ failed => route = "generate_scenario"
            /\ (~failed /\ broken) => route = "generate_scenario"
            /\ (~failed /\ ~broken /\ pending) => route = "tools"
            /\ (~failed /\ ~broken /\ ~pending /\ judge.type # "raise") =>
                /\ route \in {"generate_scenario", "continue"}
                /\ route = "generate_scenario" => check_is_done(judge)
                /\ s.messages.last = "ai_text" =>
                       (route = "generate_scenario" <=> check_is_done(judge))
            /\ (failed \/ broken) => call.result.next # "execute_tools"
            /\ call.result.next = "execute_tools" <=> route = "tools"

\* the twentieth assistant message asks for tools and the router goes to
\* generate_scenario
C21_Witness ==
    /\ call.fn = "router"
    /\ ~call.args.state.analysis_failed
    /\ call.args.state.messages.ai = 20
    /\ call.args.state.messages.last = "ai_tools"
    /\ call.result = [route |-> "generate_scenario", next |-> "generate_scenario"]

\* C22: an exception raised by a model call made during the reasoning phase of
\* a run (in agent_reasoner, in the router's completion judgment, in
\* generate_scenario or in classify_results) never leaves the run: the run
\* goes on and ends with a final_report set
C22_ModelExceptionsCaptured ==
    (graph = "full" /\ runs["agent_reasoner"] > 0) =>
        /\ node # "RAISED"
        /\ error = ""
        /\ node = "END" => state.final_report.present

\* what the code keeps of C22: the exceptions of agent_reasoner, of
\* generate_scenario and of classify_results are captured, and a run that
\* reaches END after the reasoning phase has a final_report
C22_CapturedExceptForRouter ==
    (graph = "full" /\ runs["agent_reasoner"] > 0) =>
        /\ node = "RAISED" => error = "judgment model call raised"
        /\ node = "RAISED" => ~state.analysis_failed /\ ~state.final_report.present
        /\ node = "END" => state.final_report.present

C24_SlowChunkRecordedAsTimeout ==
    \A k \in 1..Len(batch_results) :
        batch_results[k][1] \in slow =>
            /\ batch_results[k][2].important_artifacts = <<>>
            /\ batch_results[k][2].chunk_summary = "timeout"

\* what the code does with a slow chunk: the loop waits until its analysis has
\* finished and records what the analysis returned, never a timeout
C24_NoTimeoutRecorded ==
    /\ \A k \in 1..Len(batch_results) : batch_results[k][2].chunk_summary # "timeout"
    /\ \A k \in 1..Len(all_results) : all_results[k].chunk_summary # "timeout"
    /\ \A k \in 1..Len(state.intermediate_results) :
          state.intermediate_results[k].chunk_summary # "timeout"

\* the artifacts of a sequence, as a set
Elements(seq) == {seq[k] : k \in 1..Len(seq)}

\* C25: at iteration 0 the filter's pool is the concatenation of
\* artifact_chunks and at every later iteration it is the previous iteration's
\* surviving artifacts; for any model output, including out-of-range or
\* repeated indices, the survivors of an iteration are drawn from that
\* iteration's pool and are no more than the pool holds, so the pool never
\* grows from one iteration to the next
C25_PoolNeverGrows ==
    /\ f_pc = "collect" => Flatten(f_chunks) = FilterPool(state)
    /\ \A k \in 1..Len(batch_results) :
        LET chunk == f_chunks[batch_results[k][1] + 1]
            survivors == batch_results[k][2].important_artifacts
        IN  /\ Elements(survivors) \subseteq Elements(chunk)
            /\ Len(survivors) <= Len(chunk)
    /\ (f_pc = "idle" /\ runs["filter_artifacts"] > 0
            /\ node \in {"filter_artifacts", "extract_results"}) =>
        /\ Elements(FilterPool(state)) \subseteq Elements(Flatten(f_chunks))
        /\ TotalFiltered(state.intermediate_results) <= SumLen(f_chunks)

\* what the code keeps of C25: the pool is the previous iteration's survivors
\* and every survivor is an artifact of the pool it was selected from
C25_SurvivorsDrawnFromPool ==
    /\ f_pc = "collect" => Flatten(f_chunks) = FilterPool(state)
    /\ \A k \in 1..Len(batch_results) :
        Elements(batch_results[k][2].important_artifacts)
            \subseteq Elements(f_chunks[batch_results[k][1] + 1])
    /\ (f_pc = "idle" /\ runs["filter_artifacts"] > 0
            /\ node \in {"filter_artifacts", "extract_results"}) =>
        Elements(FilterPool(state)) \subseteq Elements(Flatten(f_chunks))

\* C27: on every path of generate_scenario (failure short-circuit,
\* no-tool-output short-circuit, model success, model exception) the job_id and
\* task_id of final_report equal the state's job_id and task_id whatever the
\* model returned, and the model is not called on the two short-circuit paths
C27_IdsFromState ==
    call.fn = "scenario_generator" =>
        LET s == call.args.state
            short_circuit == s.analysis_failed \/ s.messages.tool = 0
        IN  /\ call.result.final_report.present
            /\ call.result.final_report.job_id = s.job_id
            /\ call.result.final_report.task_id = s.task_id
            /\ short_circuit => call.result.invoked = 0
            /\ ~short_circuit => call.result.invoked = 1
            /\ short_circuit =>
                call.result.final_report.report_detail_id \in {"analysis_failed", "no_search"}

\* the model answered with a scenario carrying ids of its own making and the
\* final_report has the ids of the state
C27_Witness ==
    /\ call.fn = "scenario_generator"
    /\ ~call.args.state.analysis_failed
    /\ call.args.state.messages.tool > 0
    /\ call.args.reply.kind = "ok"
    /\ call.args.reply.job_id = "made up"
    /\ call.args.reply.task_id = "made up"
    /\ call.args.state.job_id = "j2"
    /\ call.result.final_report.job_id = "j2"
    /\ call.result.final_report.task_id = call.args.state.task_id
    /\ call.result.invoked = 1

\* C28: when scenario and report persistence both succeed and neither the
\* renderer nor object storage fails, the PDF step of generate_report renders
\* the regrouped report, uploads it under the acting user's id and obtains the
\* uploaded URL: the result is absent only when rendering or upload fails
C28_PdfRenderedAndUploaded ==
    (calls.pdf > 0 /\ frame.scenario_saved /\ frame.report_saved
        /\ frame.pdf_error # "exporter not built") =>
        /\ calls.render > 0
        /\ frame.pdf_error = ""
        /\ frame.pdf_url # None => calls.upload > 0

\* what the code does: the call of generate_and_upload lacks user_id, so the
\* PDF step never renders, never uploads and never obtains a URL
C28_PdfStepNeverRenders ==
    calls.pdf > 0 =>
        /\ calls.render = 0
        /\ calls.upload = 0
        /\ frame.pdf_url = None
        /\ frame.pdf_error \in {"TypeError", "exporter not built"}

\* part1_test.py line 43: the count the Part 1 script prints,
\* sum(len(r.important_artifacts) for r in final_state['intermediate_results'])
part1_reported_count(final_state) == TotalFiltered(final_state.intermediate_results)

\* C29: after the Part 1 graph (filter, extract, save) has ended, the
\* filtered-artifact count the Part 1 script reports equals the number of
\* artifacts in the final state's filtered_artifacts
C29_ReportedCountIsFiltered ==
    (graph = "part1" /\ node = "END") =>
        part1_reported_count(state) = Len(state.filtered_artifacts)

\* what the code does: extract_filtered_artifacts has emptied
\* intermediate_results, so the script reports 0 whatever survived
C29_ReportedCountIsZero ==
    (graph = "part1" /\ node = "END") =>
        /\ part1_reported_count(state) = 0
        /\ state.intermediate_results = <<>>
        /\ runs["extract_results"] = 1

\* C30: in both rendering passes, the page number and the named bookmark
\* recorded for a section's table-of-contents entry refer to the page on which
\* that section's title is drawn, also when the title does not fit on the
\* current page and a page break is taken just before it
C30_TocPageIsTitlePage ==
    call.fn = "generate_from_json" =>
        \A k \in 1..Len(call.result) :
            /\ call.result[k].toc_page = call.result[k].drawn_in_first
            /\ call.result[k].toc_page = call.result[k].drawn_page
            /\ call.result[k].bookmark_page = call.result[k].drawn_page

\* what the code keeps of C30: the entry of a main title is right, and the
\* entry of a section title is right or one page early
C30_TocPageAtMostOneEarly ==
    call.fn = "generate_from_json" =>
        \A k \in 1..Len(call.result) :
            LET title == call.result[k] IN
            /\ title.bookmark_page = title.toc_page
            /\ title.drawn_in_first = title.drawn_page
            /\ title.is_main => title.toc_page = title.drawn_page
            /\ title.drawn_page \in {title.toc_page, title.toc_page + 1}

====
